---- MODULE Spec2Model ----
(***************************************************************************)
(* Model of the native plant catalogue's enrichment pipeline:              *)
(*   - the retrying HTTP fetcher safe_get (scraper.py and                  *)
(*     enrich_characteristics.py) and the adapters built on it,            *)
(*   - the property write update_plant and the image upsert store_image,   *)
(*   - the three drivers scrape_all, enrich_usda.main and                  *)
(*     enrich_characteristics.main.                                        *)
(* Strings are TLA+ strings; a property map (a Python dict with string     *)
(* keys) is a function whose domain is the set of its keys.                *)
(***************************************************************************)
EXTENDS Integers, Sequences, FiniteSets, TLC

VARIABLES
    \* ---- one call of the fetcher, and the adapter call around it
    fpc,        \* "idle" | "loop" | "sleep" | "direct" | "returned" | "done"
    fvariant,   \* which safe_get: "scraper" | "chars" | "none" (no fetcher)
    fretries,   \* the retries argument of the call
    fattempt,   \* the loop variable attempt
    fplan,      \* how the network will answer the GETs of this call, in order
    fhist,      \* outcomes of the GETs issued so far, in order
    fevents,    \* "get" / "sleep" events of the call, in order
    fresult,    \* "unset" | "resp" | "none"
    acaller,    \* "safe_get" (a bare call) or the adapter that called
    akey,       \* the adapter's identifying key
    astage,     \* which request of the adapter the fetch is for (1 or 2)
    abody,      \* the body a 200 response of this call carries
    aresult     \* what the adapter returned (Pending before)

fvars == <<fpc, fvariant, fretries, fattempt, fplan, fhist, fevents, fresult,
           acaller, akey, astage, abody, aresult>>

VARIABLES
    \* ---- the graph store and the image directory
    plants,     \* the Plant nodes: a sequence of property maps
    images,     \* the Image nodes: a sequence of [url, local_path, source]
    rels,       \* the HAS_IMAGE relationships: a sequence of [plant, image]
                \* (indices into plants and images)
    files,      \* the paths of the files in the image directory
    op          \* the store operation applied last and its arguments

svars == <<plants, images, rels, files, op>>

VARIABLES
    \* ---- the drivers
    dpc,        \* "idle" | "loop" | "done" | "crashed"
    dpass,      \* the driver running: "scrape" | "usda" | "chars" ("none" before)
    dlist,      \* the rows selected at the start of the run
    di,         \* how many rows of dlist the loop has gone through
    dproc,      \* the names of the plants the run has processed, in order
    dstart,     \* the Plant nodes as they were when the run started
    druns,      \* the drivers started so far, in order
    dends,      \* how each run that is over ended and what it left in the graph
    dlog,       \* what the loop did for the plant it processed last, in order
    world       \* how the external sources answer

dvars == <<dpc, dpass, dlist, di, dproc, dstart, druns, dends, dlog, world>>

VARIABLES
    \* ---- the query layer (backend/main.py)
    qreq,       \* the request handled last
    qres        \* what the handler returned for it

qvars == <<qreq, qres>>

vars == <<fvars, svars, dvars, qvars>>

(***************************************************************************)
(* Generic helpers.                                                        *)
(***************************************************************************)
Min(a, b) == IF a < b THEN a ELSE b

EmptyMap == <<>>

\* dict.update: the entries of new win over those of old.
Update(old, new) == new @@ old

\* Python's sep.join(seq) for a sequence of strings.
RECURSIVE Join(_, _)
Join(seq, sep) ==
    IF seq = <<>> THEN ""
    ELSE IF Len(seq) = 1 THEN seq[1]
    ELSE seq[1] \o sep \o Join(Tail(seq), sep)

\* Python's seq[:n].
Take(seq, n) == SubSeq(seq, 1, Min(Len(seq), n))

Count(seq, x) == Cardinality({i \in 1..Len(seq) : seq[i] = x})

(***************************************************************************)
(* The fetcher.                                                            *)
(***************************************************************************)
\* Bound on the retries argument explored for a bare call of safe_get.
MaxRetries == 3

\* Default of the retries parameter: scraper.safe_get and
\* enrich_characteristics.safe_get.
ScraperRetries == 3
CharsRetries == 2

DefaultRetries(v) == IF v = "scraper" THEN ScraperRetries ELSE CharsRetries

\* What one requests.get can end in: status 200, status 404, any other
\* status (written "500"), or a requests.RequestException ("exc").
Outcomes == {"200", "404", "500", "exc"}
Transient == {"500", "exc"}

\* The except branch of safe_get: scraper.py sleeps after every exception,
\* enrich_characteristics.py only when another attempt follows.
SleepsAfterException(v, attempt, retries) ==
    IF v = "scraper" THEN TRUE ELSE attempt < retries - 1

\* A fetcher that treats 404 like any other failing status and tries again.
AttemptStepRetrying404(v, retries, attempt, o) ==
    CASE o = "200" -> [pc |-> "returned", result |-> "resp", attempt |-> attempt]
      [] o \in {"404", "500"} ->
                      [pc |-> "loop", result |-> "unset", attempt |-> attempt + 1]
      [] OTHER     -> IF SleepsAfterException(v, attempt, retries)
                      THEN [pc |-> "sleep", result |-> "unset", attempt |-> attempt]
                      ELSE [pc |-> "loop", result |-> "unset", attempt |-> attempt + 1]

\* A fetcher that gives up (returns None) on the first exception.
AttemptStepGivingUp(v, retries, attempt, o) ==
    CASE o = "200" -> [pc |-> "returned", result |-> "resp", attempt |-> attempt]
      [] o = "404" -> [pc |-> "returned", result |-> "none", attempt |-> attempt]
      [] o = "500" -> [pc |-> "loop", result |-> "unset", attempt |-> attempt + 1]
      [] OTHER     -> [pc |-> "returned", result |-> "none", attempt |-> attempt]

\* One iteration of the body of the for loop of safe_get on outcome o:
\* the loop state after it. A status other than 200 and 404 falls through
\* to the next iteration without sleeping.
AttemptStep(v, retries, attempt, o) ==
    CASE o = "200" -> [pc |-> "returned", result |-> "resp", attempt |-> attempt]
      [] o = "404" -> [pc |-> "returned", result |-> "none", attempt |-> attempt]
      [] o = "500" -> [pc |-> "loop", result |-> "unset", attempt |-> attempt + 1]
      [] OTHER     -> IF SleepsAfterException(v, attempt, retries)
                      THEN [pc |-> "sleep", result |-> "unset", attempt |-> attempt]
                      ELSE [pc |-> "loop", result |-> "unset", attempt |-> attempt + 1]

\* The value safe_get returns when the network answers its GETs with the
\* outcomes outs, in order (outs holds at least retries outcomes).
RECURSIVE SafeGetFrom(_, _, _, _)
SafeGetFrom(v, retries, attempt, outs) ==
    IF attempt >= retries THEN "none"
    ELSE LET s == AttemptStep(v, retries, attempt, outs[attempt + 1])
         IN  IF s.pc = "returned" THEN s.result
             ELSE SafeGetFrom(v, retries, attempt + 1, outs)

SafeGetValue(v, retries, outs) == SafeGetFrom(v, retries, 0, outs)

\* The number of GETs that call issues.
RECURSIVE SafeGetGetsFrom(_, _, _, _)
SafeGetGetsFrom(v, retries, attempt, outs) ==
    IF attempt >= retries THEN 0
    ELSE LET s == AttemptStep(v, retries, attempt, outs[attempt + 1])
         IN  IF s.pc = "returned" THEN 1
             ELSE 1 + SafeGetGetsFrom(v, retries, attempt + 1, outs)

(***************************************************************************)
(* Strings, character by character.                                        *)
(***************************************************************************)
\* The characters the model's strings are written in, in code point order.
Ascii == " ,-./0123456789:ABCDEFGHIJKLMNOPQRSTUVWXYZ_abcdefghijklmnopqrstuvwxyz|"

CharAt(s, i) == SubSeq(s, i, i)

\* The code point rank of a one-character string; 0 for a character that
\* is not in Ascii.
Rank(c) ==
    IF \E i \in 1..Len(Ascii) : CharAt(Ascii, i) = c
    THEN CHOOSE i \in 1..Len(Ascii) : CharAt(Ascii, i) = c
    ELSE 0

Uppercase == "ABCDEFGHIJKLMNOPQRSTUVWXYZ"
Lowercase == "abcdefghijklmnopqrstuvwxyz"

LowerChar(c) ==
    IF \E i \in 1..26 : CharAt(Uppercase, i) = c
    THEN CharAt(Lowercase, CHOOSE i \in 1..26 : CharAt(Uppercase, i) = c)
    ELSE c

\* str.lower().
RECURSIVE Lower(_)
Lower(s) ==
    IF Len(s) = 0 THEN ""
    ELSE LowerChar(CharAt(s, 1)) \o Lower(SubSeq(s, 2, Len(s)))

\* Python's s < t on strings (code point order, a proper prefix first).
RECURSIVE StrLess(_, _)
StrLess(s, t) ==
    IF Len(t) = 0 THEN FALSE
    ELSE IF Len(s) = 0 THEN TRUE
    ELSE IF CharAt(s, 1) = CharAt(t, 1)
         THEN StrLess(SubSeq(s, 2, Len(s)), SubSeq(t, 2, Len(t)))
         ELSE Rank(CharAt(s, 1)) < Rank(CharAt(t, 1))

\* sorted(set): the members of a finite set of strings in ascending order.
RECURSIVE SortedStrings(_)
SortedStrings(S) ==
    IF S = {} THEN <<>>
    ELSE LET m == CHOOSE x \in S : \A y \in S \ {x} : StrLess(x, y)
         IN  <<m>> \o SortedStrings(S \ {m})

\* str.split(): the maximal runs of characters other than the blank.
RECURSIVE SplitFrom(_, _, _)
SplitFrom(s, i, cur) ==
    IF i > Len(s) THEN (IF cur = "" THEN <<>> ELSE <<cur>>)
    ELSE IF CharAt(s, i) = " "
         THEN (IF cur = "" THEN <<>> ELSE <<cur>>) \o SplitFrom(s, i + 1, "")
         ELSE SplitFrom(s, i + 1, cur \o CharAt(s, i))

Split(s) == SplitFrom(s, 1, "")

\* str.strip() of blanks.
RECURSIVE Strip(_)
Strip(s) ==
    IF Len(s) = 0 THEN ""
    ELSE IF CharAt(s, 1) = " " THEN Strip(SubSeq(s, 2, Len(s)))
    ELSE IF CharAt(s, Len(s)) = " " THEN Strip(SubSeq(s, 1, Len(s) - 1))
    ELSE s

\* str.startswith.
StartsWith(s, prefix) ==
    Len(s) >= Len(prefix) /\ SubSeq(s, 1, Len(prefix)) = prefix

\* A field name that is present only when its value is truthy.
Opt(field, v) == IF v # "" THEN field :> v ELSE EmptyMap

(***************************************************************************)
(* Response bodies and adapter results.                                    *)
(*                                                                         *)
(* A body is [kind, data]. kind says how far the body can be read:         *)
(*   "unparseable"  r.json() raises (the body is not JSON);                *)
(*   "nondict"      the JSON value is not an object (data.get raises       *)
(*                  AttributeError);                                       *)
(*   "badelem"      an object one of whose attributes holds a value of the *)
(*                  wrong type (null or a number where text or an object   *)
(*                  is read);                                              *)
(*   "dict"         an object whose attributes, where present, have the    *)
(*                  types the adapter reads; data holds them, with "" and  *)
(*                  <<>> for an attribute that is missing, null or empty.  *)
(***************************************************************************)
Body(kind, data) == [kind |-> kind, data |-> data]
NoBody == Body("unparseable", EmptyMap)

Pending == [status |-> "pending", props |-> EmptyMap, images |-> <<>>]
Returned(props) == [status |-> "returned", props |-> props, images |-> <<>>]
ReturnedImages(imgs) == [status |-> "returned", props |-> EmptyMap, images |-> imgs]
Raised == [status |-> "raised", props |-> EmptyMap, images |-> <<>>]

(***************************************************************************)
(* USDA adapter: fetch_usda_profile of scraper.py and of enrich_usda.py.   *)
(* data: habits, durations (sequences of strings), group, rank, image      *)
(* (strings), ancestors (sequence of [Rank, Symbol]), and the three flags, *)
(* each "missing", "true", "false" or "null".                              *)
(***************************************************************************)
\* str(data.get(flag, False)).
PyStr(flag) ==
    CASE flag = "true"  -> "True"
      [] flag = "false" -> "False"
      [] flag = "null"  -> "None"
      [] OTHER          -> "False"

\* The field an ancestor of the (lower-cased) rank is projected to; "" when
\* the rank matches no branch of the if/elif chain.
RankField(rank) ==
    CASE rank = "kingdom"    -> "kingdom"
      [] rank = "subkingdom" -> "subkingdom"
      [] rank = "division"   -> "division"
      [] rank = "class"      -> "tax_class"
      [] rank = "order"      -> "tax_order"
      [] rank = "family"     -> "family"
      [] rank = "genus"      -> "genus"
      [] OTHER               -> ""

\* The loop over Ancestors: a later ancestor of a rank overwrites an
\* earlier one.
RECURSIVE UsdaAncestorProps(_, _)
UsdaAncestorProps(ancs, props) ==
    IF ancs = <<>> THEN props
    ELSE LET f == RankField(Lower(Head(ancs).Rank))
         IN  UsdaAncestorProps(Tail(ancs),
                 IF f = "" THEN props
                 ELSE Update(props, f :> Head(ancs).Symbol))

UsdaHabitProps(d) ==
    IF d.habits # <<>>
    THEN [growth_habits |-> Join(d.habits, ", "),
          growth_habit_primary |-> d.habits[1]]
    ELSE EmptyMap

UsdaDurationProps(d) ==
    IF d.durations # <<>> THEN [duration |-> Join(d.durations, ", ")]
    ELSE EmptyMap

UsdaFlagProps(d) ==
    [has_wildlife_value   |-> PyStr(d.wildlife),
     has_pollinator_value |-> PyStr(d.pollinator),
     has_wetland_data     |-> PyStr(d.wetland)]

\* The property map built from a parsed payload.
UsdaExtract(d) ==
    LET p1 == UsdaHabitProps(d)
        p2 == Update(p1, UsdaDurationProps(d))
        p3 == Update(p2, Opt("plant_group", d.group))
        p4 == Update(p3, Opt("rank", d.rank))
        p5 == Update(p4, Opt("usda_image_filename", d.image))
        p6 == UsdaAncestorProps(d.ancestors, p5)
    IN  Update(p6, UsdaFlagProps(d))

\* scraper.fetch_usda_profile after safe_get returned a response: r.json()
\* is inside try, the reads of data are not.
ScraperUsdaParse(body) ==
    CASE body.kind = "unparseable" -> Returned(EmptyMap)
      [] body.kind = "dict"        -> Returned(UsdaExtract(body.data))
      [] OTHER                     -> Raised

\* enrich_usda.fetch_usda_profile after requests.get returned status 200.
EnrichUsdaParse(body) ==
    CASE body.kind = "unparseable" -> Returned(EmptyMap)
      [] body.kind = "dict"        -> Returned(UsdaExtract(body.data))
      [] OTHER                     -> Raised

(***************************************************************************)
(* GBIF taxonomy adapter: scraper.fetch_gbif_taxonomy.                     *)
(* data: results, a sequence of maps from the rank fields and              *)
(* "vernacularName" to strings.                                            *)
(***************************************************************************)
\* The first two tokens of a scientific name, joined by sep; the name
\* itself when it has fewer than two tokens.
GenusSpecies(name, sep) ==
    LET parts == Split(name)
    IN  IF Len(parts) >= 2 THEN Join(Take(parts, 2), sep) ELSE name

GbifRankFields == <<"kingdom", "phylum", "class", "order", "family", "genus", "species">>

GbifKey(field) ==
    IF field \in {"class", "order"} THEN "gbif_" \o field ELSE field

RECURSIVE GbifRankProps(_, _, _)
GbifRankProps(first, fields, props) ==
    IF fields = <<>> THEN props
    ELSE GbifRankProps(first, Tail(fields),
             IF first[Head(fields)] # ""
             THEN Update(props, GbifKey(Head(fields)) :> first[Head(fields)])
             ELSE props)

GbifTaxExtract(d) ==
    IF d.results = <<>> THEN EmptyMap
    ELSE LET first == d.results[1]
         IN  Update(GbifRankProps(first, GbifRankFields, EmptyMap),
                    Opt("vernacular_name", first["vernacularName"]))

\* Everything after safe_get is inside one try: any failure gives {}.
GbifTaxParse(body) ==
    IF body.kind = "dict" THEN Returned(GbifTaxExtract(body.data))
    ELSE Returned(EmptyMap)

(***************************************************************************)
(* More string helpers: substring tests and decimal numbers.               *)
(***************************************************************************)
\* Python's sub in s.
Contains(s, sub) ==
    \E i \in 1..(Len(s) - Len(sub) + 1) : SubSeq(s, i, i + Len(sub) - 1) = sub

\* str.endswith.
EndsWith(s, suffix) ==
    Len(s) >= Len(suffix) /\ SubSeq(s, Len(s) - Len(suffix) + 1, Len(s)) = suffix

Digits == "0123456789"

IsDigit(c) == \E i \in 1..10 : CharAt(Digits, i) = c

DigitValue(c) == (CHOOSE i \in 1..10 : CharAt(Digits, i) = c) - 1

\* str(n) for a natural number.
RECURSIVE ToStr(_)
ToStr(n) ==
    IF n < 10 THEN CharAt(Digits, n + 1)
    ELSE ToStr(n \div 10) \o CharAt(Digits, (n % 10) + 1)

\* int(s) succeeds on a non-empty string of digits.
IsNumeral(s) == Len(s) > 0 /\ \A i \in 1..Len(s) : IsDigit(CharAt(s, i))

RECURSIVE ToInt(_)
ToInt(s) ==
    IF Len(s) = 1 THEN DigitValue(s)
    ELSE 10 * ToInt(SubSeq(s, 1, Len(s) - 1)) + DigitValue(CharAt(s, Len(s)))

(***************************************************************************)
(* Wikipedia adapter: enrich_characteristics.fetch_wikipedia_summary.      *)
(* data: type (string), extract = [state, text, height]: state is          *)
(* "missing", "null" or "text"; height is the span of text the height      *)
(* pattern matches ("" when it matches nothing).                           *)
(***************************************************************************)
\* Minimum length an extract must exceed, and the cap of wiki_summary.
WikiMinLen == 50
WikiMaxLen == 1000

\* query_name raises IndexError (name_parts[0]) on a name with no token.
WikiQueryRaises(name) == Split(name) = <<>>

WikiQueryName(name) ==
    LET parts == Split(name)
    IN  IF Len(parts) >= 2 THEN Join(Take(parts, 2), "_") ELSE parts[1]

\* The height pattern, (\d+[\-...]\d+|\d+)\s*m\s*(?:tall|high|in height) with
\* re.IGNORECASE, on texts of the characters of Ascii (a blank is the only
\* white space, "-" the only dash).
HeightWords == <<"tall", "high", "in height">>

\* The position after the run of digits (of blanks) that starts at i.
RECURSIVE DigitsEnd(_, _)
DigitsEnd(s, i) ==
    IF i <= Len(s) /\ IsDigit(CharAt(s, i)) THEN DigitsEnd(s, i + 1) ELSE i

RECURSIVE BlanksEnd(_, _)
BlanksEnd(s, i) ==
    IF i <= Len(s) /\ CharAt(s, i) = " " THEN BlanksEnd(s, i + 1) ELSE i

\* \s*m\s*(?:tall|high|in height) from position i: the position of the last
\* character matched, 0 when there is no match.
UnitEnd(s, i) ==
    LET m == BlanksEnd(s, i)
        w == BlanksEnd(s, m + 1)
        fits == {k \in DOMAIN HeightWords :
                    /\ w + Len(HeightWords[k]) - 1 <= Len(s)
                    /\ Lower(SubSeq(s, w, w + Len(HeightWords[k]) - 1))
                           = HeightWords[k]}
    IN  IF m > Len(s) \/ Lower(CharAt(s, m)) # "m" \/ fits = {} THEN 0
        ELSE w + Len(HeightWords[CHOOSE k \in fits : TRUE]) - 1

\* The pattern tried at position i: the range first, then the single number.
HeightEndAt(s, i) ==
    LET n == DigitsEnd(s, i)
        range == IF n + 1 <= Len(s) /\ CharAt(s, n) = "-"
                    /\ IsDigit(CharAt(s, n + 1))
                 THEN UnitEnd(s, DigitsEnd(s, n + 1))
                 ELSE 0
    IN  IF ~IsDigit(CharAt(s, i)) THEN 0
        ELSE IF range > 0 THEN range
        ELSE UnitEnd(s, n)

\* re.search(...).group(0): the leftmost match, "" when there is none.
HeightMatch(s) ==
    LET starts == {i \in 1..Len(s) : HeightEndAt(s, i) > 0}
    IN  IF starts = {} THEN ""
        ELSE LET i == CHOOSE i \in starts : \A j \in starts : i <= j
             IN  SubSeq(s, i, HeightEndAt(s, i))

\* An extract that is a text.
WikiText(t) == [state |-> "text", text |-> t, height |-> HeightMatch(t)]

WikiExtract(d) ==
    LET extract == IF d.extract.state = "text" THEN d.extract.text ELSE ""
    IN  Update(IF Len(extract) > WikiMinLen
               THEN [wiki_summary |-> Take(extract, WikiMaxLen)]
               ELSE EmptyMap,
               Opt("height_m", IF d.extract.state = "text" THEN d.extract.height ELSE ""))

\* After safe_get returned a response. r.json() and the reads of data are
\* outside any try; re.search raises TypeError on a null extract.
WikiParse(body) ==
    CASE body.kind # "dict"                     -> Raised
      [] body.data.type = "disambiguation"      -> Returned(EmptyMap)
      [] body.data.extract.state = "null"       -> Raised
      [] OTHER                                  -> Returned(WikiExtract(body.data))

(***************************************************************************)
(* GBIF descriptions adapter: fetch_gbif_descriptions.                     *)
(* data: results, a sequence of [type, description].                       *)
(***************************************************************************)
HabitatTypes == {"habitat", "ecology", "distribution"}
HabitTypes == {"habit", "growth form", "life form"}
HabitatCap == 300
HabitCap == 100
MinDescriptionLen == 5
MaxHabitatTexts == 2

\* The two buckets after the loop over results, as [habitat, habit].
RECURSIVE DescBuckets(_, _)
DescBuckets(results, acc) ==
    IF results = <<>> THEN acc
    ELSE LET desc_type == Lower(Head(results).type)
             text == Strip(Head(results).description)
         IN  DescBuckets(Tail(results),
                 IF Len(text) < MinDescriptionLen THEN acc
                 ELSE IF desc_type \in HabitatTypes
                      THEN [acc EXCEPT !.habitat = Append(@, Take(text, HabitatCap))]
                 ELSE IF desc_type \in HabitTypes
                      THEN [acc EXCEPT !.habit = Append(@, Take(text, HabitCap))]
                 ELSE acc)

DescExtract(d) ==
    LET b == DescBuckets(d.results, [habitat |-> <<>>, habit |-> <<>>])
    IN  Update(IF b.habitat # <<>>
               THEN [habitat_notes |-> Join(Take(b.habitat, MaxHabitatTexts), " | ")]
               ELSE EmptyMap,
               IF b.habit # <<>> THEN [gbif_habit |-> b.habit[1]] ELSE EmptyMap)

DescParse(body) ==
    IF body.kind = "dict" THEN Returned(DescExtract(body.data)) ELSE Raised

(***************************************************************************)
(* GBIF phenology adapter: fetch_gbif_phenology.                           *)
(* data: facets, a sequence of [field, counts]; counts is a sequence of    *)
(* [name, count, hasCount] (hasCount FALSE: the entry has no "count").     *)
(***************************************************************************)
MONTH_NAMES ==
    <<"January", "February", "March", "April", "May", "June", "July",
      "August", "September", "October", "November", "December">>

IsMonth(m) == m \in 1..Len(MONTH_NAMES)

PeakCount == 3

\* month_counts as [order, count]: order lists the keys in insertion order
\* (a dict keeps the place of a key that is assigned again), count maps
\* each key to its last value. An entry whose name is no numeral
\* (ValueError) or that has no count (KeyError) is skipped.
RECURSIVE MonthCountsOf(_, _)
MonthCountsOf(counts, mc) ==
    IF counts = <<>> THEN mc
    ELSE LET c == Head(counts)
         IN  MonthCountsOf(Tail(counts),
                 IF IsNumeral(c.name) /\ c.hasCount
                 THEN LET m == ToInt(c.name)
                      IN  [order |-> IF m \in DOMAIN mc.count THEN mc.order
                                     ELSE Append(mc.order, m),
                           count |-> Update(mc.count, m :> c.count)]
                 ELSE mc)

RECURSIVE MonthCounts(_, _)
MonthCounts(facets, mc) ==
    IF facets = <<>> THEN mc
    ELSE MonthCounts(Tail(facets),
             IF Head(facets).field = "MONTH"
             THEN MonthCountsOf(Head(facets).counts, mc)
             ELSE mc)

\* sorted(items, key=lambda x: -x[1]): stable, descending by count.
RECURSIVE InsertByCount(_, _, _)
InsertByCount(sorted, m, count) ==
    IF sorted = <<>> THEN <<m>>
    ELSE IF count[Head(sorted)] >= count[m]
         THEN <<Head(sorted)>> \o InsertByCount(Tail(sorted), m, count)
         ELSE <<m>> \o sorted

RECURSIVE SortByCount(_, _, _)
SortByCount(order, count, sorted) ==
    IF order = <<>> THEN sorted
    ELSE SortByCount(Tail(order), count, InsertByCount(sorted, Head(order), count))

\* sorted(list of integers), ascending.
RECURSIVE SortedInts(_)
SortedInts(S) ==
    IF S = {} THEN <<>>
    ELSE LET m == CHOOSE x \in S : \A y \in S : x <= y
         IN  <<m>> \o SortedInts(S \ {m})

RECURSIVE SumCounts(_, _)
SumCounts(order, count) ==
    IF order = <<>> THEN 0
    ELSE count[Head(order)] + SumCounts(Tail(order), count)

\* The names of the months of ms that MONTH_NAMES knows, in the order of ms.
RECURSIVE MonthNamesOf(_)
MonthNamesOf(ms) ==
    IF ms = <<>> THEN <<>>
    ELSE (IF IsMonth(Head(ms)) THEN <<MONTH_NAMES[Head(ms)]>> ELSE <<>>)
         \o MonthNamesOf(Tail(ms))

PeakMonths(mc) == MonthNamesOf(Take(SortByCount(mc.order, mc.count, <<>>), PeakCount))

\* The months above the mean itself.
ActiveMonthsAboveMean(mc) ==
    SortedInts({m \in DOMAIN mc.count :
        mc.count[m] * Len(mc.order) > SumCounts(mc.order, mc.count)})

\* c > avg * 0.5 with avg = sum / len, in integers: 2 * c * len > sum.
ActiveMonths(mc) ==
    SortedInts({m \in DOMAIN mc.count :
        2 * mc.count[m] * Len(mc.order) > SumCounts(mc.order, mc.count)})

PhenoExtract(d) ==
    LET mc == MonthCounts(d.facets, [order |-> <<>>, count |-> EmptyMap])
    IN  IF mc.order = <<>> THEN EmptyMap
        ELSE Update(Opt("peak_observation_months", Join(PeakMonths(mc), ", ")),
                    Opt("active_season", Join(MonthNamesOf(ActiveMonths(mc)), ", ")))

\* int(count["name"]) on a name that is null or a number's wrong type
\* raises TypeError, which the except clause does not catch.
PhenoParse(body) ==
    IF body.kind = "dict" THEN Returned(PhenoExtract(body.data)) ELSE Raised

(***************************************************************************)
(* GBIF distributions adapter: fetch_gbif_distributions.                   *)
(* data: results, a sequence of [threatStatus, locationId, locality].      *)
(***************************************************************************)
MaxStates == 20

RECURSIVE FirstThreat(_)
FirstThreat(results) ==
    IF results = <<>> THEN ""
    ELSE IF Head(results).threatStatus # "" THEN Head(results).threatStatus
    ELSE FirstThreat(Tail(results))

DistStates(results) ==
    {results[i].locality : i \in
        {j \in 1..Len(results) :
            StartsWith(results[j].locationId, "TDWG:") /\ results[j].locality # ""}}

DistExtract(d) ==
    Update(Opt("iucn_threat_status", FirstThreat(d.results)),
           IF DistStates(d.results) # {}
           THEN [us_states |-> Join(Take(SortedStrings(DistStates(d.results)), MaxStates), ", ")]
           ELSE EmptyMap)

DistParse(body) ==
    IF body.kind = "dict" THEN Returned(DistExtract(body.data)) ELSE Raised

(***************************************************************************)
(* Wikimedia Commons adapter: scraper.fetch_wikimedia_images.              *)
(* Search body data: titles (the hits' titles, in order) and info, the     *)
(* body of the imageinfo lookup, whose data is pages, a sequence of        *)
(* [url, mime, title].                                                     *)
(***************************************************************************)
MaxImages == 3

ImageExtensions == {".jpg", ".jpeg", ".png", ".webp"}

RECURSIVE ImageTitles(_)
ImageTitles(titles) ==
    IF titles = <<>> THEN <<>>
    ELSE (IF \E e \in ImageExtensions : EndsWith(Lower(Head(titles)), e)
          THEN <<Head(titles)>> ELSE <<>>) \o ImageTitles(Tail(titles))

\* The titles the imageinfo lookup is made for; <<>> on any failure to read
\* the search body (the try block returns []).
CommonsTitles(body) ==
    IF body.kind = "dict" THEN Take(ImageTitles(body.data.titles), MaxImages)
    ELSE <<>>

RECURSIVE ImagePages(_)
ImagePages(pages) ==
    IF pages = <<>> THEN <<>>
    ELSE (IF Head(pages).url # "" /\ Contains(Head(pages).mime, "image")
          THEN <<[url |-> Head(pages).url, title |-> Head(pages).title]>>
          ELSE <<>>) \o ImagePages(Tail(pages))

\* The list returned after the imageinfo response.
CommonsImages(info) ==
    IF info.kind = "dict" THEN Take(ImagePages(info.data.pages), MaxImages)
    ELSE <<>>

(***************************************************************************)
(* The GBIF key lookup of get_gbif_key_for_plant.                          *)
(* data: usageKey, speciesKey (0: missing or null).                        *)
(***************************************************************************)
\* key = data.get("usageKey") or data.get("speciesKey"); 0 stands for the
\* None the function returns (its caller only tests the value's truth).
MatchKey(d) == IF d.usageKey # 0 THEN d.usageKey ELSE d.speciesKey

\* r.json() and data.get are outside any try.
MatchParse(body) ==
    IF body.kind = "dict" THEN [status |-> "returned", key |-> MatchKey(body.data)]
    ELSE [status |-> "raised", key |-> 0]

(***************************************************************************)
(* Sample payloads of the external sources.                                *)
(***************************************************************************)
RECURSIVE Repeat(_, _)
Repeat(s, n) == IF n = 0 THEN "" ELSE s \o Repeat(s, n - 1)

UnreadableBodies ==
    {Body("unparseable", EmptyMap), Body("nondict", EmptyMap), Body("badelem", EmptyMap)}

SampleAncestors ==
    <<[Rank |-> "Kingdom", Symbol |-> "Plantae"],
      [Rank |-> "Family", Symbol |-> "Aceraceae"],
      [Rank |-> "Genus", Symbol |-> "ACER"]>>

UsdaData(habits, rich, ancestors, wildlife) ==
    [habits     |-> habits,
     durations  |-> IF rich THEN <<"Perennial">> ELSE <<>>,
     group      |-> IF rich THEN "Dicot" ELSE "",
     rank       |-> IF rich THEN "Species" ELSE "",
     image      |-> IF rich THEN "acru_001.jpg" ELSE "",
     ancestors  |-> ancestors,
     wildlife   |-> wildlife,
     pollinator |-> "missing",
     wetland    |-> "false"]

UsdaBodies ==
    UnreadableBodies \cup
    {Body("dict", UsdaData(h, rich, an, w)) :
        h \in {<<>>, <<"Forb/herb">>, <<"Tree", "Shrub">>},
        rich \in BOOLEAN,
        an \in {<<>>, SampleAncestors},
        w \in {"missing", "true", "false", "null"}}

GbifFirst(full) ==
    [kingdom |-> IF full THEN "Plantae" ELSE "",
     phylum  |-> IF full THEN "Tracheophyta" ELSE "",
     class   |-> IF full THEN "Magnoliopsida" ELSE "",
     order   |-> IF full THEN "Sapindales" ELSE "",
     family  |-> "Sapindaceae",
     genus   |-> "Acer",
     species |-> IF full THEN "Acer rubrum" ELSE "",
     vernacularName |-> IF full THEN "red maple" ELSE ""]

GbifTaxBodies ==
    UnreadableBodies \cup
    {Body("dict", [results |-> r]) :
        r \in {<<>>, <<GbifFirst(TRUE)>>, <<GbifFirst(FALSE), GbifFirst(TRUE)>>}}

ShortExtract == "Grows 10 m tall"
LongExtract == Repeat("Acer rubrum is a tree. ", 3)
RangeExtract == "A shrub 2-3 M High, the leaves smooth above and hairy below"
CappedExtract == Repeat("Acer rubrum is a tree. ", 44)

ShortText == WikiText(ShortExtract)
LongText == WikiText(LongExtract)

WikiExtracts ==
    {[state |-> "missing", text |-> "", height |-> ""],
     [state |-> "null", text |-> "", height |-> ""],
     ShortText, LongText, WikiText(RangeExtract), WikiText(CappedExtract),
     WikiText("10 m"), WikiText("about 10 metres tall")}

WikiBodies ==
    UnreadableBodies \cup
    {Body("dict", [type |-> t, extract |-> e]) :
        t \in {"standard", "disambiguation"}, e \in WikiExtracts}

DescBodies ==
    UnreadableBodies \cup
    {Body("dict", [results |-> r]) :
        r \in {<<>>,
               <<[type |-> "Habitat", description |-> "  moist woods  "],
                 [type |-> "habit", description |-> "tree"],
                 [type |-> "Growth Form", description |-> "deciduous tree"]>>,
               <<[type |-> "ecology", description |-> "swamps"],
                 [type |-> "distribution", description |-> "eastern states"],
                 [type |-> "habitat", description |-> "uplands"]>>,
               <<[type |-> "HABITAT", description |-> Repeat("moist woods ", 30)],
                 [type |-> "Life Form", description |-> Repeat("deciduous tree ", 8)],
                 [type |-> "habit", description |-> "shrub"]>>,
               <<[type |-> "Habitat and ecology", description |-> "river banks"],
                 [type |-> "general habit", description |-> "climbing vine"]>>}}

MonthEntry(name, count) == [name |-> name, count |-> count, hasCount |-> TRUE]

\* Month facets reporting any of four months, not in calendar order, with
\* any of three counts each (0: the month is not reported).
SampleMonthOrder == <<"9", "3", "6", "12">>
SampleCounts == {0, 1, 3, 40}

RECURSIVE ReportedEntries(_, _)
ReportedEntries(k, f) ==
    IF k > Len(SampleMonthOrder) THEN <<>>
    ELSE (IF f[k] = 0 THEN <<>> ELSE <<MonthEntry(SampleMonthOrder[k], f[k])>>)
         \o ReportedEntries(k + 1, f)

MonthFacets ==
    {<<[field |-> "MONTH", counts |-> ReportedEntries(1, f)]>> :
        f \in [DOMAIN SampleMonthOrder -> SampleCounts]}

PhenoBodies ==
    UnreadableBodies \cup {Body("dict", [facets |-> f]) : f \in MonthFacets} \cup
    {Body("dict", [facets |-> f]) :
        f \in {<<>>,
               <<[field |-> "MONTH",
                  counts |-> <<MonthEntry("3", 10), MonthEntry("6", 50),
                               MonthEntry("9", 40), MonthEntry("12", 1)>>]>>,
               <<[field |-> "MONTH",
                  counts |-> <<MonthEntry("5", 4), MonthEntry("x", 9),
                               [name |-> "7", count |-> 0, hasCount |-> FALSE],
                               MonthEntry("4", 4)>>]>>}}

DistBodies ==
    UnreadableBodies \cup
    {Body("dict", [results |-> r]) :
        r \in {<<>>,
               <<[threatStatus |-> "", locationId |-> "TDWG:VRG", locality |-> "Virginia"],
                 [threatStatus |-> "LEAST_CONCERN", locationId |-> "TDWG:MRY", locality |-> "Maryland"],
                 [threatStatus |-> "VULNERABLE", locationId |-> "ISO:US", locality |-> "Texas"]>>}}

SamplePages ==
    <<[url |-> "https://commons/a.jpg", mime |-> "image/jpeg", title |-> "File:Acer a.jpg"],
      [url |-> "https://commons/b.pdf", mime |-> "application/pdf", title |-> "File:Acer b.pdf"]>>

CommonsInfoBodies ==
    {Body("unparseable", EmptyMap), Body("dict", [pages |-> <<>>]),
     Body("dict", [pages |-> SamplePages])}

CommonsBodies ==
    UnreadableBodies \cup
    {Body("dict", [titles |-> t, info |-> i]) :
        t \in {<<>>, <<"File:Acer a.JPG", "File:Acer notes.pdf">>},
        i \in CommonsInfoBodies}

(***************************************************************************)
(* One call of safe_get, step by step, and the adapter calls around it.    *)
(***************************************************************************)
Adapters ==
    {"usda_scraper", "usda_enrich", "gbif_taxonomy", "commons",
     "wikipedia", "gbif_descriptions", "gbif_phenology", "gbif_distributions"}

\* The safe_get an adapter calls; enrich_usda.fetch_usda_profile calls
\* requests.get itself.
AdapterVariant(a) ==
    CASE a \in {"usda_scraper", "gbif_taxonomy", "commons"} -> "scraper"
      [] a = "usda_enrich" -> "none"
      [] OTHER -> "chars"

SampleNames == {"", "Acer", "Acer rubrum L."}

AdapterKeys(a) ==
    CASE a \in {"usda_scraper", "usda_enrich"} -> {"ACRU"}
      [] a \in {"gbif_taxonomy", "commons", "wikipedia"} -> SampleNames
      [] OTHER -> {"3189834"}

AdapterBodies(a) ==
    CASE a \in {"usda_scraper", "usda_enrich"} -> UsdaBodies
      [] a = "gbif_taxonomy" -> GbifTaxBodies
      [] a = "commons" -> CommonsBodies
      [] a = "wikipedia" -> WikiBodies
      [] a = "gbif_descriptions" -> DescBodies
      [] a = "gbif_phenology" -> PhenoBodies
      [] OTHER -> DistBodies

\* The answers of the network to the GETs of one call: the i-th GET gets
\* plan[i], and GETs past the end of the plan get its last outcome.
Plans(n) == [1..n -> Outcomes]

PlanAt(plan, i) == IF i <= Len(plan) THEN plan[i] ELSE plan[Len(plan)]

\* A loop that runs once too often (range(retries + 1)).
LoopContinuesOnceMore(attempt, retries) == attempt <= retries

\* for attempt in range(retries): the loop runs its body again.
LoopContinues(attempt, retries) == attempt < retries

\* What an adapter returns once its (last) fetch returned; result is the
\* value of safe_get, body the body of the response.
AdapterAfterFetch(a, result, body) ==
    IF result = "none"
    THEN Returned(EmptyMap)
    ELSE CASE a = "usda_scraper"       -> ScraperUsdaParse(body)
           [] a = "usda_enrich"        -> EnrichUsdaParse(body)
           [] a = "gbif_taxonomy"      -> GbifTaxParse(body)
           [] a = "wikipedia"          -> WikiParse(body)
           [] a = "gbif_descriptions"  -> DescParse(body)
           [] a = "gbif_phenology"     -> PhenoParse(body)
           [] a = "gbif_distributions" -> DistParse(body)
           [] OTHER                    -> ReturnedImages(CommonsImages(body))

FetchInit ==
    /\ fpc = "idle"
    /\ fvariant = "none"
    /\ fretries = 0
    /\ fattempt = 0
    /\ fplan = <<>>
    /\ fhist = <<>>
    /\ fevents = <<>>
    /\ fresult = "unset"
    /\ acaller = "safe_get"
    /\ akey = ""
    /\ astage = 1
    /\ abody = NoBody
    /\ aresult = Pending

\* safe_get(url, retries=n) called on its own.
CallSafeGet(v, n, plan) ==
    /\ fpc = "idle"
    /\ fpc' = "loop"
    /\ fvariant' = v
    /\ fretries' = n
    /\ fplan' = plan
    /\ acaller' = "safe_get"
    /\ UNCHANGED <<fattempt, fhist, fevents, fresult, akey, astage, abody, aresult>>

\* An adapter called with key; body is what a 200 response would carry.
\* fetch_wikipedia_summary builds its query before fetching and raises on a
\* name without tokens.
CallAdapter(a, key, body, plan) ==
    /\ fpc = "idle"
    /\ acaller' = a
    /\ akey' = key
    /\ abody' = body
    /\ IF a = "wikipedia" /\ WikiQueryRaises(key)
       THEN /\ fpc' = "done"
            /\ aresult' = Raised
            /\ UNCHANGED <<fvariant, fretries, fplan>>
       ELSE /\ fpc' = IF a = "usda_enrich" THEN "direct" ELSE "loop"
            /\ fvariant' = AdapterVariant(a)
            /\ fretries' = IF a = "usda_enrich" THEN 1
                           ELSE DefaultRetries(AdapterVariant(a))
            /\ fplan' = plan
            /\ UNCHANGED aresult
    /\ UNCHANGED <<fattempt, fhist, fevents, fresult, astage>>

\* One pass through the try block: the GET and what its outcome leads to.
SafeGetAttempt ==
    /\ fpc = "loop"
    /\ LoopContinues(fattempt, fretries)
    /\ LET o == PlanAt(fplan, fattempt + 1)
           s == AttemptStep(fvariant, fretries, fattempt, o)
       IN  /\ fhist' = Append(fhist, o)
           /\ fevents' = Append(fevents, "get")
           /\ fpc' = s.pc
           /\ fresult' = s.result
           /\ fattempt' = s.attempt
    /\ UNCHANGED <<fvariant, fretries, fplan, acaller, akey, astage, abody, aresult>>
    /\ UNCHANGED <<svars, dvars, qvars>>

\* time.sleep(delay) in the except branch, then the next iteration.
SafeGetSleep ==
    /\ fpc = "sleep"
    /\ fevents' = Append(fevents, "sleep")
    /\ fattempt' = fattempt + 1
    /\ fpc' = "loop"
    /\ UNCHANGED <<fvariant, fretries, fplan, fhist, fresult, acaller, akey,
                   astage, abody, aresult>>
    /\ UNCHANGED <<svars, dvars, qvars>>

\* The loop is over: return None.
SafeGetExhausted ==
    /\ fpc = "loop"
    /\ ~LoopContinues(fattempt, fretries)
    /\ fresult' = "none"
    /\ fpc' = "returned"
    /\ UNCHANGED <<fvariant, fretries, fattempt, fplan, fhist, fevents, acaller,
                   akey, astage, abody, aresult>>
    /\ UNCHANGED <<svars, dvars, qvars>>

\* enrich_usda.fetch_usda_profile: one requests.get inside try; a status
\* other than 200 and any exception give {} at once.
DirectGet ==
    /\ fpc = "direct"
    /\ fhist' = Append(fhist, PlanAt(fplan, 1))
    /\ fevents' = Append(fevents, "get")
    /\ fresult' = IF PlanAt(fplan, 1) = "200" THEN "resp" ELSE "none"
    /\ fpc' = "returned"
    /\ UNCHANGED <<fvariant, fretries, fattempt, fplan, acaller, akey, astage,
                   abody, aresult>>
    /\ UNCHANGED <<svars, dvars, qvars>>

\* The adapter goes on after its fetch returned. fetch_wikimedia_images
\* makes a second fetch (imageinfo) when the search gave image titles.
AdapterReturn ==
    /\ fpc = "returned"
    /\ acaller # "safe_get"
    /\ IF acaller = "commons" /\ astage = 1 /\ fresult = "resp"
          /\ CommonsTitles(abody) # <<>>
       THEN \E plan \in Plans(ScraperRetries) :
            /\ astage' = 2
            /\ abody' = abody.data.info
            /\ fplan' = plan
            /\ fpc' = "loop"
            /\ fattempt' = 0
            /\ fhist' = <<>>
            /\ fresult' = "unset"
            /\ UNCHANGED <<fevents, aresult>>
       ELSE /\ aresult' = IF acaller = "commons" /\ astage = 1
                          THEN ReturnedImages(<<>>)
                          ELSE AdapterAfterFetch(acaller, fresult, abody)
            /\ fpc' = "done"
            /\ UNCHANGED <<fattempt, fplan, fhist, fevents, fresult, astage, abody>>
    /\ UNCHANGED <<fvariant, fretries, acaller, akey>>
    /\ UNCHANGED <<svars, dvars, qvars>>

\* The call is over; the next one starts from scratch.
FetchReset ==
    /\ \/ fpc = "done"
       \/ fpc = "returned" /\ acaller = "safe_get"
    /\ fpc' = "idle"
    /\ fvariant' = "none"
    /\ fretries' = 0
    /\ fattempt' = 0
    /\ fplan' = <<>>
    /\ fhist' = <<>>
    /\ fevents' = <<>>
    /\ fresult' = "unset"
    /\ acaller' = "safe_get"
    /\ akey' = ""
    /\ astage' = 1
    /\ abody' = NoBody
    /\ aresult' = Pending
    /\ UNCHANGED <<svars, dvars, qvars>>

\* A new call starts only when no call is under way.
StartCall ==
    /\ fpc = "idle"
    /\ \/ \E v \in {"scraper", "chars"}, n \in 1..MaxRetries :
             \E plan \in Plans(n) : CallSafeGet(v, n, plan)
       \/ \E a \in Adapters : \E key \in AdapterKeys(a), body \in AdapterBodies(a) :
             \E plan \in Plans(IF a = "usda_enrich" THEN 1
                               ELSE DefaultRetries(AdapterVariant(a))) :
                CallAdapter(a, key, body, plan)
    /\ UNCHANGED <<svars, dvars, qvars>>

FetchNext ==
    \/ StartCall
    \/ SafeGetAttempt
    \/ SafeGetSleep
    \/ SafeGetExhausted
    \/ DirectGet
    \/ AdapterReturn
    \/ FetchReset


(***************************************************************************)
(* Properties of the fetcher and of the adapters' use of it (FetchSpec).   *)
(***************************************************************************)
\* The call under way is a call of safe_get (bare or made by an adapter).
FetcherCall == fvariant \in {"scraper", "chars"}

FetchOver == fpc \in {"returned", "done"}

\* The plan's first 200 is its k-th outcome and no 404 comes before it.
FirstOkAt(plan, k) ==
    /\ PlanAt(plan, k) = "200"
    /\ \A j \in 1..(k - 1) : PlanAt(plan, j) \notin {"200", "404"}

\* C1: in every call of safe_get, an attempt answered 404 is the last GET
\* of the call: the call has returned None, no GET and no sleep follows it.
C1_NotFoundReturnsAtOnce ==
    FetcherCall =>
        \A i \in 1..Len(fhist) :
            fhist[i] = "404" =>
                /\ i = Len(fhist)
                /\ FetchOver
                /\ fresult = "none"
                /\ fevents[Len(fevents)] = "get"
                /\ (astage = 1 => Count(fevents, "get") = i)

\* A 404 met at the second of three attempts ended the call.
C1_Witness ==
    /\ acaller = "safe_get"
    /\ fretries = 3
    /\ fhist = <<"500", "404">>
    /\ fresult = "none"
    /\ fpc = "returned"

\* C2: when the first 200 of the network's answers is the k-th, k <= retries,
\* and no 404 precedes it, the call returns that response after exactly k
\* GETs.
C2_FirstOkIsReturned ==
    (FetcherCall /\ FetchOver) =>
        \A k \in 1..fretries :
            FirstOkAt(fplan, k) =>
                /\ fresult = "resp"
                /\ Len(fhist) = k
                /\ fhist[k] = "200"
                /\ (astage = 1 => Count(fevents, "get") = k)

\* Two failures, then 200, with retries = 3.
C2_Witness ==
    /\ acaller = "safe_get"
    /\ fretries = 3
    /\ fhist = <<"500", "exc", "200">>
    /\ fresult = "resp"
    /\ fpc = "returned"

\* C3: a call issues at most retries GETs (and at most as many sleeps), and
\* when every attempt fails with another status or an exception it returns
\* None after exactly retries GETs.
C3_BoundedAttempts ==
    FetcherCall =>
        /\ Len(fhist) <= fretries
        /\ fattempt <= fretries
        /\ (astage = 1 => Len(fevents) <= 2 * fretries)
        /\ (FetchOver /\ (\A i \in 1..fretries : PlanAt(fplan, i) \in Transient)) =>
               /\ fresult = "none"
               /\ Len(fhist) = fretries

\* Three failed attempts out of three.
C3_Witness ==
    /\ acaller = "safe_get"
    /\ fretries = 3
    /\ fhist = <<"exc", "500", "exc">>
    /\ fresult = "none"
    /\ fpc = "returned"

\* C4: every adapter fetches through safe_get, so an adapter whose first
\* attempt failed with another status or an exception has made a further
\* attempt before it returns.
C4_AdaptersRetryTransient ==
    (/\ acaller # "safe_get"
     /\ fpc = "done"
     /\ fhist # <<>>
     /\ fhist[1] \in Transient) =>
        /\ FetcherCall
        /\ Len(fhist) > 1

\* C5: no adapter call ends in an exception.
C5_AdaptersTotal == aresult.status # "raised"

(***************************************************************************)
(* The graph store: update_plant and store_image.                          *)
(***************************************************************************)
SafeChars == "abcdefghijklmnopqrstuvwxyzABCDEFGHIJKLMNOPQRSTUVWXYZ0123456789_"

SafeCharSet == {CharAt(SafeChars, i) : i \in 1..Len(SafeChars)}

\* The string s with each character outside the set safe replaced by "_",
\* from position i on.
RECURSIVE ReSubFrom(_, _, _)
ReSubFrom(s, i, safe) ==
    IF i > Len(s) THEN ""
    ELSE (IF CharAt(s, i) \in safe THEN CharAt(s, i) ELSE "_")
         \o ReSubFrom(s, i + 1, safe)

\* re.sub(r"[^a-zA-Z0-9_]", "_", k).
ReSubUnsafe(k) == ReSubFrom(k, 1, SafeCharSet)

\* The length a sanitized field name is cut to.
KeyCap == 50

\* re.sub(r"[^a-zA-Z0-9_]", "_", k)[:50].
Sanitize(k) == Take(ReSubUnsafe(k), KeyCap)

\* The query parameters built from props, iterated in the order given: the
\* value bound to each sanitized name (a later key of the same sanitized
\* name replaces the earlier one's value).
RECURSIVE ParamsOf(_, _, _)
ParamsOf(props, order, params) ==
    IF order = <<>> THEN params
    ELSE ParamsOf(props, Tail(order),
                  Update(params, Sanitize(Head(order)) :> props[Head(order)]))

\* The fields the SET clause assigns and the values they get, in
\* Neo4jDatabase._set_props: the parameter scientific_name is overwritten
\* by the plant's name after the props were bound.
ScraperAssigned(name, props, order) ==
    LET params == Update(ParamsOf(props, order, EmptyMap), "scientific_name" :> name)
    IN  [f \in {Sanitize(k) : k \in DOMAIN props} |-> params[f]]

\* The same in update_plant of enrich_usda.py and of
\* enrich_characteristics.py, whose parameters are named p_<field>.
EnrichAssigned(name, props, order) ==
    LET params == ParamsOf(props, order, EmptyMap)
    IN  [f \in {Sanitize(k) : k \in DOMAIN props} |-> params[f]]

Assigned(variant, name, props, order) ==
    IF variant = "scraper" THEN ScraperAssigned(name, props, order)
    ELSE EnrichAssigned(name, props, order)

\* A write that replaces the node's properties by the supplied ones.
SetOnNodeOverwriting(node, assigned) ==
    Update([f \in {"scientific_name"} |-> node["scientific_name"]], assigned)

\* SET p.f1 = v1, p.f2 = v2, ... on one node: the other properties stay.
SetOnNode(node, assigned) == Update(node, assigned)

\* update_plant(scientific_name, props): nothing on an empty map, otherwise
\* MATCH (p:Plant {scientific_name: $name}) SET ... on every node matched.
UpdatePlantResult(variant, ps, name, props, order) ==
    IF props = EmptyMap THEN ps
    ELSE [n \in DOMAIN ps |->
            IF ps[n]["scientific_name"] = name
            THEN SetOnNode(ps[n], Assigned(variant, name, props, order))
            ELSE ps[n]]

\* The nodes MATCH (p:Plant {scientific_name: $sci}) binds.
Matching(ps, name) == {n \in DOMAIN ps : ps[n]["scientific_name"] = name}

ImagesWithUrl(imgs, url) == {i \in DOMAIN imgs : imgs[i].url = url}

\* An upsert that creates an Image node on every call.
MergeImageCreating(imgs, url) ==
    Append(imgs, [url |-> url, local_path |-> "", source |-> ""])

\* MERGE (i:Image {url: $url}): creates the node when none has the url.
MergeImage(imgs, url) ==
    IF ImagesWithUrl(imgs, url) # {} THEN imgs
    ELSE Append(imgs, [url |-> url, local_path |-> "", source |-> ""])

\* MERGE (p)-[:HAS_IMAGE]->(i) for each pair of pairs, in order: creates
\* the relationship when there is none between the two nodes.
RECURSIVE MergeRels(_, _)
MergeRels(rs, pairs) ==
    IF pairs = <<>> THEN rs
    ELSE MergeRels(IF \E j \in DOMAIN rs : rs[j] = Head(pairs) THEN rs
                   ELSE Append(rs, Head(pairs)),
                   Tail(pairs))

RECURSIVE SeqOfSet(_)
SeqOfSet(S) ==
    IF S = {} THEN <<>>
    ELSE LET x == CHOOSE y \in S : TRUE IN <<x>> \o SeqOfSet(S \ {x})

\* store_image: the statement of _add_image_node. Without a matching plant
\* the query has no row and writes nothing.
StoreImageResult(ps, imgs, rs, name, url, path, source) ==
    IF Matching(ps, name) = {} THEN [images |-> imgs, rels |-> rs]
    ELSE LET merged == MergeImage(imgs, url)
             hit == ImagesWithUrl(merged, url)
             set == [i \in DOMAIN merged |->
                        IF i \in hit
                        THEN [url |-> url, local_path |-> path, source |-> source]
                        ELSE merged[i]]
             pairs == SeqOfSet({[plant |-> n, image |-> i] :
                                   n \in Matching(ps, name), i \in hit})
         IN  [images |-> set, rels |-> MergeRels(rs, pairs)]

(***************************************************************************)
(* The catalogue after the bootstrap (populate_neo4j.py): one node per     *)
(* scientific name, in the order the nodes were created; usda_symbol is   *)
(* set only on the plants the symbol file names.                           *)
(***************************************************************************)
Maple == "Acer rubrum L."
Moss == "Bryum argenteum"
AsterH == "Symphyotrichum lateriflorum var. horizontale"
AsterL == "Symphyotrichum lateriflorum var. lateriflorum"

Catalogue ==
    <<[scientific_name |-> AsterL, common_name |-> "calico aster",
       native_status |-> "N", usda_symbol |-> "SYLA6"],
      [scientific_name |-> Moss, common_name |-> "silver moss",
       native_status |-> "N"],
      [scientific_name |-> Maple, common_name |-> "red maple",
       native_status |-> "N", usda_symbol |-> "ACRU"],
      [scientific_name |-> AsterH, common_name |-> "calico aster",
       native_status |-> "N", usda_symbol |-> "SYLA6"]>>

NoOp ==
    [kind |-> "none", variant |-> "", name |-> "", props |-> EmptyMap,
     order |-> <<>>, url |-> "", path |-> "", source |-> "", repeat |-> FALSE]

StoreInit ==
    /\ plants = Catalogue
    /\ images = <<>>
    /\ rels = <<>>
    /\ files = {}
    /\ op = NoOp

\* Arguments the store operations are tried on.
SampleTargets == {Maple, "Quercus alba"}
SampleKeys == {"habit", "a_b", "a-b"}
SampleValues == {"v1", "v2"}
\* Bound on the number of keys of a supplied map.
MaxKeys == 2
SampleMaps ==
    UNION {[K -> SampleValues] :
              K \in {J \in SUBSET SampleKeys : Cardinality(J) <= MaxKeys}}
SampleUrls == {"https://commons/a.jpg", "https://commons/b.jpg"}
SamplePaths == {"", "images/Acer_rubrum_L__0.jpg"}
SampleSources == {"wikimedia", "usda"}
ImageTargets == {Maple, Moss, "Quercus alba"}

\* The orders a dict with the keys K can hold them in.
Orders(K) ==
    {o \in [1..Cardinality(K) -> K] : \A i, j \in DOMAIN o : o[i] = o[j] => i = j}

\* update_plant called with one of the three implementations.
UpdatePlantOp ==
    \E variant \in {"scraper", "usda", "chars"}, name \in SampleTargets,
       props \in SampleMaps :
       \E order \in Orders(DOMAIN props) :
          /\ plants' = UpdatePlantResult(variant, plants, name, props, order)
          /\ op' = [NoOp EXCEPT !.kind = "update", !.variant = variant,
                                !.name = name, !.props = props, !.order = order]
          /\ UNCHANGED <<images, rels, files, fvars, dvars, qvars>>

\* store_image called.
StoreImageOp ==
    \E name \in ImageTargets, url \in SampleUrls, path \in SamplePaths,
       source \in SampleSources :
       LET r == StoreImageResult(plants, images, rels, name, url, path, source)
       IN  /\ images' = r.images
           /\ rels' = r.rels
           /\ op' = [NoOp EXCEPT !.kind = "image", !.name = name, !.url = url,
                                 !.path = path, !.source = source,
                                 !.repeat = (op.kind = "image" /\ op.name = name
                                             /\ op.url = url)]
           /\ UNCHANGED <<plants, files, fvars, dvars, qvars>>

(***************************************************************************)
(* The image files: scraper.download_image.                                *)
(***************************************************************************)
AlnumCharSet == SafeCharSet \ {"_"}

\* re.sub(r"[^a-zA-Z0-9]", "_", s).
ReSubNonAlnum(s) == ReSubFrom(s, 1, AlnumCharSet)

\* The length the file name stem of a plant is cut to.
SymCap == 30

\* safe_sym = re.sub(r"[^a-zA-Z0-9]", "_", sci_name)[:30].
SafeSym(name) == Take(ReSubNonAlnum(name), SymCap)

Positions(s, c) == {i \in 1..Len(s) : CharAt(s, i) = c}

\* s.split(c)[-1].
AfterLast(s, c) ==
    IF Positions(s, c) = {} THEN s
    ELSE LET last == CHOOSE i \in Positions(s, c) : \A j \in Positions(s, c) : j <= i
         IN  SubSeq(s, last + 1, Len(s))

\* s.split(c)[0].
BeforeFirst(s, c) ==
    IF Positions(s, c) = {} THEN s
    ELSE LET first == CHOOSE i \in Positions(s, c) : \A j \in Positions(s, c) : i <= j
         IN  SubSeq(s, 1, first - 1)

DownloadExtensions == {"jpg", "jpeg", "png", "gif", "webp"}

\* The extension download_image gives the file.
FileExt(url) ==
    LET ext == Lower(BeforeFirst(AfterLast(url, "."), "?"))
    IN  IF ext \in DownloadExtensions THEN ext ELSE "jpg"

\* os.path.join(IMAGE_DIR, f"{symbol}_{index}.{ext}").
FilePath(url, symbol, index) ==
    "images/" \o symbol \o "_" \o ToStr(index) \o "." \o FileExt(url)

\* What the GET of an image can end in: status 200 with an image content
\* type ("ok"), or anything else, an exception included ("fail").
DownloadOutcomes == {"ok", "fail"}

\* download_image(image_url, symbol, index) in a directory holding the files
\* fs, the GET ending in outcome: the path returned, the directory after, and
\* whether the GET was issued at all.
DownloadImage(fs, url, symbol, index, outcome) ==
    LET filepath == FilePath(url, symbol, index)
    IN  IF filepath \in fs THEN [path |-> filepath, files |-> fs, get |-> FALSE]
        ELSE IF outcome = "ok"
        THEN [path |-> filepath, files |-> fs \cup {filepath}, get |-> TRUE]
        ELSE [path |-> "", files |-> fs, get |-> TRUE]

(***************************************************************************)
(* The external sources as one run after the other meets them: an answer   *)
(* is the outcomes of the GETs of a call, in order, and the body a 200     *)
(* response carries. The USDA service is asked by symbol, the other        *)
(* services by scientific name (or by the GBIF key looked up for it), the  *)
(* image host by URL.                                                      *)
(***************************************************************************)
Answer(plan, body) == [plan |-> plan, body |-> body]

AllOk == <<"200", "200", "200">>
AllNotFound == <<"404", "404", "404">>
OkAtLast == <<"exc", "500", "200">>

UsdaIds == {"good", "flags", "flaky", "broken"}

UsdaAnswer(id) ==
    CASE id = "good"  -> Answer(AllOk, Body("dict",
                            UsdaData(<<"Tree", "Shrub">>, TRUE, SampleAncestors, "true")))
      [] id = "flags" -> Answer(AllOk, Body("dict",
                            UsdaData(<<>>, FALSE, <<>>, "missing")))
      [] id = "flaky" -> Answer(OkAtLast, Body("dict",
                            UsdaData(<<"Forb/herb">>, FALSE, <<>>, "false")))
      [] OTHER        -> Answer(AllOk, Body("nondict", EmptyMap))

SiteIds == {"rich_a", "rich_b", "flaky", "absent", "broken"}

PageOf(url) == [url |-> url, mime |-> "image/jpeg", title |-> "File:Plant.jpg"]

SearchBody(url) ==
    Body("dict", [titles |-> <<"File:Plant.jpg", "File:Notes.pdf">>,
                  info |-> Body("dict", [pages |-> <<PageOf(url)>>])])

\* A search that finds two images.
SearchBodyTwo ==
    Body("dict", [titles |-> <<"File:Plant.jpg", "File:Leaf.jpg">>,
                  info |-> Body("dict",
                                [pages |-> <<PageOf("https://commons/a.jpg"),
                                             PageOf("https://commons/b.jpg")>>])])

PhenoCounts ==
    <<[field |-> "MONTH",
       counts |-> <<MonthEntry("3", 10), MonthEntry("6", 50),
                    MonthEntry("9", 40), MonthEntry("12", 1)>>]>>

DescResults ==
    <<[type |-> "Habitat", description |-> "  moist woods  "],
      [type |-> "habit", description |-> "tree"]>>

DistResults ==
    <<[threatStatus |-> "LEAST_CONCERN", locationId |-> "TDWG:MRY",
       locality |-> "Maryland"]>>

RichSite(url) ==
    [gbif     |-> Answer(AllOk, Body("dict", [results |-> <<GbifFirst(TRUE)>>])),
     search   |-> Answer(AllOk, SearchBody(url)),
     infoplan |-> AllOk,
     wiki     |-> Answer(AllOk, Body("dict",
                     [type |-> "standard",
                      extract |-> LongText])),
     match    |-> Answer(AllOk, Body("dict", [usageKey |-> 3189834, speciesKey |-> 0])),
     desc     |-> Answer(AllOk, Body("dict", [results |-> DescResults])),
     pheno    |-> Answer(AllOk, Body("dict", [facets |-> PhenoCounts])),
     dist     |-> Answer(AllOk, Body("dict", [results |-> DistResults]))]

\* Every service fails at first and answers at the last attempt; the
\* Wikipedia extract is too short to be kept as a summary.
FlakySite ==
    [gbif     |-> Answer(OkAtLast, Body("dict", [results |-> <<GbifFirst(FALSE)>>])),
     search   |-> Answer(OkAtLast, SearchBodyTwo),
     infoplan |-> OkAtLast,
     wiki     |-> Answer(<<"exc", "200">>, Body("dict",
                     [type |-> "standard",
                      extract |-> ShortText])),
     match    |-> Answer(<<"500", "200">>,
                         Body("dict", [usageKey |-> 0, speciesKey |-> 3189834])),
     desc     |-> Answer(<<"exc", "200">>, Body("dict", [results |-> DescResults])),
     pheno    |-> Answer(<<"exc", "exc">>, Body("dict", [facets |-> PhenoCounts])),
     dist     |-> Answer(<<"500", "200">>, Body("dict", [results |-> <<>>]))]

AbsentSite ==
    [gbif     |-> Answer(AllNotFound, NoBody),
     search   |-> Answer(AllNotFound, NoBody),
     infoplan |-> AllNotFound,
     wiki     |-> Answer(AllNotFound, NoBody),
     match    |-> Answer(AllNotFound, NoBody),
     desc     |-> Answer(AllNotFound, NoBody),
     pheno    |-> Answer(AllNotFound, NoBody),
     dist     |-> Answer(AllNotFound, NoBody)]

\* The services answer 200 with bodies that are not what the adapters
\* expect (an error page, a JSON list).
BrokenSite ==
    [gbif     |-> Answer(AllOk, Body("nondict", EmptyMap)),
     search   |-> Answer(AllOk, Body("unparseable", EmptyMap)),
     infoplan |-> AllOk,
     wiki     |-> Answer(AllNotFound, NoBody),
     match    |-> Answer(AllOk, Body("dict", [usageKey |-> 3189834, speciesKey |-> 0])),
     desc     |-> Answer(AllOk, Body("nondict", EmptyMap)),
     pheno    |-> Answer(AllOk, Body("dict", [facets |-> <<>>])),
     dist     |-> Answer(AllOk, Body("dict", [results |-> <<>>]))]

SiteAnswer(id) ==
    CASE id = "rich_a" -> RichSite("https://commons/a.jpg")
      [] id = "rich_b" -> RichSite("https://commons/b.jpg")
      [] id = "flaky"  -> FlakySite
      [] id = "absent" -> AbsentSite
      [] OTHER         -> BrokenSite

(***************************************************************************)
(* The adapters as the drivers call them: the whole call at once.          *)
(***************************************************************************)
\* What the fetch of adapter a returns when the network answers with plan.
FetchValue(a, plan) ==
    IF a = "usda_enrich"
    THEN (IF PlanAt(plan, 1) = "200" THEN "resp" ELSE "none")
    ELSE SafeGetValue(AdapterVariant(a), DefaultRetries(AdapterVariant(a)), plan)

\* The call of a property adapter with key, the source answering ans.
AdapterCall(a, key, ans) ==
    IF a = "wikipedia" /\ WikiQueryRaises(key) THEN Raised
    ELSE AdapterAfterFetch(a, FetchValue(a, ans.plan), ans.body)

\* fetch_wikimedia_images: the search, then the imageinfo lookup.
WikimediaImages(search, infoplan) ==
    IF FetchValue("commons", search.plan) = "none" THEN <<>>
    ELSE IF CommonsTitles(search.body) = <<>> THEN <<>>
    ELSE IF FetchValue("commons", infoplan) = "none" THEN <<>>
    ELSE CommonsImages(search.body.data.info)

\* The property map a statement reads as p.<field>: NULL is an absent field.
IsNull(node, field) == field \notin DOMAIN node

\* get_gbif_key_for_plant: the stored key when there is one (int of the
\* stored string), otherwise the key of the match service (0: None).
GbifKeyForPlant(ps, name, ans) ==
    LET node == ps[CHOOSE n \in DOMAIN ps : ps[n]["scientific_name"] = name]
    IN  IF ~IsNull(node, "gbif_key") /\ node["gbif_key"] # ""
        THEN (IF IsNumeral(node["gbif_key"])
              THEN [status |-> "returned", key |-> ToInt(node["gbif_key"])]
              ELSE [status |-> "raised", key |-> 0])
        ELSE IF FetchValue("gbif_match", ans.plan) = "none"
             THEN [status |-> "returned", key |-> 0]
             ELSE MatchParse(ans.body)

\* The order a dict built by the adapters holds its keys in matters to
\* update_plant only when two keys share a sanitized name.
KeyOrder(props) == SeqOfSet(DOMAIN props)

(***************************************************************************)
(* The selection each driver starts a run with: a sequence of [sci, sym]   *)
(* (sym is "" for a null usda_symbol).                                     *)
(***************************************************************************)
Row(node) ==
    [sci |-> node["scientific_name"],
     sym |-> IF IsNull(node, "usda_symbol") THEN "" ELSE node["usda_symbol"]]

\* ORDER BY p.scientific_name.
RECURSIVE InsertByName(_, _)
InsertByName(rows, r) ==
    IF rows = <<>> THEN <<r>>
    ELSE IF StrLess(r.sci, Head(rows).sci) THEN <<r>> \o rows
    ELSE <<Head(rows)>> \o InsertByName(Tail(rows), r)

RECURSIVE OrderByName(_)
OrderByName(rows) ==
    IF rows = <<>> THEN <<>>
    ELSE InsertByName(OrderByName(Tail(rows)), Head(rows))

Rows(ps) == [n \in 1..Len(ps) |-> Row(ps[n])]

\* Neo4jDatabase.get_all_plants: MATCH (p:Plant), no WHERE, no ORDER BY;
\* the rows come in the order of the nodes.
GetAllPlants(ps) == Rows(ps)

\* A selection that leaves out the test of the marker field.
UsdaPendingAll(ps) ==
    LET keep(node) == ~IsNull(node, "usda_symbol") /\ node["usda_symbol"] # ""
    IN  OrderByName(Rows(SelectSeq(ps, keep)))

\* The query of enrich_usda.main.
UsdaPending(ps) ==
    LET keep(node) == /\ ~IsNull(node, "usda_symbol")
                      /\ node["usda_symbol"] # ""
                      /\ IsNull(node, "growth_habit_primary")
    IN  OrderByName(Rows(SelectSeq(ps, keep)))

\* The query of enrich_characteristics.main.
CharsPending(ps) ==
    LET keep(node) == IsNull(node, "wiki_summary")
    IN  OrderByName(Rows(SelectSeq(ps, keep)))

Passes == {"scrape", "usda", "chars"}

Select(pass, ps) ==
    CASE pass = "scrape" -> GetAllPlants(ps)
      [] pass = "usda"   -> UsdaPending(ps)
      [] OTHER           -> CharsPending(ps)

(***************************************************************************)
(* The body of each driver's loop for one row of its selection, on the     *)
(* store st = [plants, images, rels, files] with the sources answering as  *)
(* w says: the store after it, or "raised" when an exception leaves the    *)
(* loop (no driver catches any).                                           *)
(***************************************************************************)
Completed(st) == [status |-> "returned", store |-> st]
Crashed(st) == [status |-> "raised", store |-> st]

\* What the loop does, as the entries of st.log: a call of an adapter (with
\* the map it returned), a time.sleep, the key get_gbif_key_for_plant
\* returned, a call of update_plant, of download_image, of store_image.
Event(ev, what) ==
    [ev |-> ev, what |-> what, url |-> "", path |-> "", source |-> "",
     get |-> FALSE, existed |-> FALSE, props |-> EmptyMap]

Called(adapter, props) == [Event("call", adapter) EXCEPT !.props = props]
Looked(props) == [Event("lookup", "gbif_key") EXCEPT !.props = props]
Slept == Event("sleep", "")
Updated(name, props) == [Event("update", name) EXCEPT !.props = props]
Downloaded(name, url, existed, d) ==
    [Event("download_image", name) EXCEPT !.url = url, !.path = d.path,
                                          !.get = d.get, !.existed = existed]
Stored(name, url, path, source) ==
    [Event("store_image", name) EXCEPT !.url = url, !.path = path,
                                       !.source = source]

Logged(st, events) == [st EXCEPT !.log = st.log \o events]

\* db.update_plant(sci_name, props), whatever props holds.
WritePropsAlways(variant, st, name, props) ==
    Logged([st EXCEPT !.plants =
               UpdatePlantResult(variant, st.plants, name, props, KeyOrder(props))],
           <<Updated(name, props)>>)

\* if props: db.update_plant(sci_name, props)
WriteProps(variant, st, name, props) ==
    IF props = EmptyMap THEN st
    ELSE Logged([st EXCEPT !.plants =
                    UpdatePlantResult(variant, st.plants, name, props,
                                      KeyOrder(props))],
                <<Updated(name, props)>>)

\* The body of the loop over the images, with the download of every image
\* skipped.
RECURSIVE StoreImagesSkippingFailures(_, _, _, _, _)
StoreImagesSkippingFailures(st, name, imgs, j, dl) ==
    IF imgs = <<>> THEN st
    ELSE LET url == Head(imgs).url
             d == DownloadImage(st.files, url, SafeSym(name), j, dl[url])
             r == StoreImageResult(st.plants, st.images, st.rels, name, url,
                                   d.path, "wikimedia")
             down == Logged([st EXCEPT !.files = d.files],
                            <<Downloaded(name, url, FilePath(url, SafeSym(name), j) \in st.files, d)>>)
         IN  StoreImagesSkippingFailures(
                 IF d.path = "" THEN Logged(down, <<Slept>>)
                 ELSE Logged([down EXCEPT !.images = r.images, !.rels = r.rels],
                             <<Stored(name, url, d.path, "wikimedia"), Slept>>),
                 name, Tail(imgs), j + 1, dl)

\* for j, (img_url, title) in enumerate(images): download, then store.
RECURSIVE StoreImages(_, _, _, _, _)
StoreImages(st, name, imgs, j, dl) ==
    IF imgs = <<>> THEN st
    ELSE LET url == Head(imgs).url
             d == DownloadImage(st.files, url, SafeSym(name), j, dl[url])
             r == StoreImageResult(st.plants, st.images, st.rels, name, url,
                                   d.path, "wikimedia")
         IN  StoreImages(Logged([st EXCEPT !.images = r.images, !.rels = r.rels,
                                           !.files = d.files],
                                <<Downloaded(name, url,
                                             FilePath(url, SafeSym(name), j)
                                                 \in st.files, d),
                                  Stored(name, url, d.path, "wikimedia"), Slept>>),
                         name, Tail(imgs), j + 1, dl)

\* The GETs of fetch_wikimedia_images: the search, and the imageinfo lookup
\* when the search found titles.
WikimediaCalls(search) ==
    IF \/ FetchValue("commons", search.plan) = "none"
       \/ CommonsTitles(search.body) = <<>>
    THEN <<Called("commons_search", EmptyMap)>>
    ELSE <<Called("commons_search", EmptyMap), Called("commons_imageinfo", EmptyMap)>>

\* scrape_all, lines 291-332, the adapters having returned usda and gbif.
ScrapeBody(st, row, w, usda, gbif) ==
    LET site == SiteAnswer(w.site[row.sci])
        props == Update(usda.props, gbif.props)
        asked == IF row.sym # "" THEN <<Called("usda_scraper", usda.props)>>
                 ELSE <<>>
        fetched == asked \o (IF row.sym # "" THEN <<Slept>> ELSE <<>>)
                         \o <<Called("gbif_taxonomy", gbif.props), Slept>>
        written == Logged(WriteProps("scraper", Logged(st, fetched), row.sci, props),
                          WikimediaCalls(site.search))
    IN  IF usda.status = "raised" THEN Crashed(Logged(st, asked))
        ELSE Completed(Logged(StoreImages(written, row.sci,
                                          WikimediaImages(site.search, site.infoplan),
                                          0, w.dl),
                              <<Slept>>))

ScrapeOne(st, row, w) ==
    ScrapeBody(st, row, w,
               IF row.sym # ""
               THEN AdapterCall("usda_scraper", row.sym, UsdaAnswer(w.usda[row.sym]))
               ELSE Returned(EmptyMap),
               AdapterCall("gbif_taxonomy", row.sci, SiteAnswer(w.site[row.sci]).gbif))

\* enrich_usda.main, lines 102-112, the adapter having returned usda.
UsdaBody(st, row, usda) ==
    LET asked == Logged(st, <<Called("usda_enrich", usda.props)>>)
    IN  IF usda.status = "raised" THEN Crashed(asked)
        ELSE Completed(Logged(WriteProps("usda", asked, row.sci, usda.props),
                              <<Slept>>))

UsdaOne(st, row, w) ==
    UsdaBody(st, row, AdapterCall("usda_enrich", row.sym, UsdaAnswer(w.usda[row.sym])))

\* get_gbif_key_for_plant asks the match service only when the node holds
\* no key.
MatchAsked(ps, name) ==
    LET node == ps[CHOOSE n \in DOMAIN ps : ps[n]["scientific_name"] = name]
    IN  IsNull(node, "gbif_key") \/ node["gbif_key"] = ""

\* What the adapters of enrich_characteristics.main return for a plant; the
\* three GBIF adapters are called only when a key was found.
CharsAnswers(st, row, w) ==
    LET site == SiteAnswer(w.site[row.sci])
        gbif_key == GbifKeyForPlant(st.plants, row.sci, site.match)
        key == ToStr(gbif_key.key)
    IN  [wiki     |-> AdapterCall("wikipedia", row.sci, site.wiki),
         gbif_key |-> gbif_key,
         key      |-> key,
         desc     |-> AdapterCall("gbif_descriptions", key, site.desc),
         pheno    |-> AdapterCall("gbif_phenology", key, site.pheno),
         dist     |-> AdapterCall("gbif_distributions", key, site.dist)]

\* enrich_characteristics.main, lines 241-284, the adapters returning r.
CharsBody(st, row, r) ==
    LET found == r.gbif_key.key # 0
        all_props ==
            IF found
            THEN Update(Update(Update(Update(r.wiki.props, [gbif_key |-> r.key]),
                                      r.desc.props), r.pheno.props), r.dist.props)
            ELSE r.wiki.props
        asked == <<Called("wikipedia", r.wiki.props)>>
        matched == asked \o <<Slept>>
                         \o (IF MatchAsked(st.plants, row.sci)
                             THEN <<Called("gbif_match", EmptyMap)>> ELSE <<>>)
                         \o <<Looked(IF found THEN [gbif_key |-> r.key]
                                     ELSE EmptyMap)>>
        described == matched \o <<Called("gbif_descriptions", r.desc.props)>>
        observed == described \o <<Slept, Called("gbif_phenology", r.pheno.props)>>
        distributed == observed
                           \o <<Slept, Called("gbif_distributions", r.dist.props)>>
        fetched == IF found THEN distributed \o <<Slept>> ELSE matched
    IN  IF r.wiki.status = "raised" THEN Crashed(Logged(st, asked))
        ELSE IF r.gbif_key.status = "raised" THEN Crashed(Logged(st, matched))
        ELSE IF found /\ r.desc.status = "raised"
        THEN Crashed(Logged(st, described))
        ELSE IF found /\ r.pheno.status = "raised"
        THEN Crashed(Logged(st, observed))
        ELSE IF found /\ r.dist.status = "raised"
        THEN Crashed(Logged(st, distributed))
        ELSE Completed(Logged(WriteProps("chars", Logged(st, fetched), row.sci,
                                         all_props),
                              <<Slept>>))

CharsOne(st, row, w) == CharsBody(st, row, CharsAnswers(st, row, w))

ProcessOne(pass, st, row, w) ==
    CASE pass = "scrape" -> ScrapeOne(st, row, w)
      [] pass = "usda"   -> UsdaOne(st, row, w)
      [] OTHER           -> CharsOne(st, row, w)

(***************************************************************************)
(* The drivers, run after run.                                             *)
(***************************************************************************)
\* Bound on the number of runs started.
MaxRuns == 2

SampleSymbols == {"ACRU", "SYLA6"}
CatalogueNames == {Catalogue[n]["scientific_name"] : n \in DOMAIN Catalogue}

\* The answers tried for each symbol and for each plant.
UsdaChoices(sym) ==
    IF sym = "ACRU" THEN {"good", "flags", "flaky"} ELSE {"good", "broken"}

SiteChoices(name) ==
    CASE name = Moss   -> {"absent", "flaky"}
      [] name = Maple  -> {"rich_a", "flaky", "broken"}
      [] name = AsterH -> {"rich_a", "absent"}
      [] OTHER         -> {"rich_b", "broken"}

\* How the sources answer, the same in every run.
Worlds ==
    [usda : {u \in [SampleSymbols -> UsdaIds] :
                \A s \in SampleSymbols : u[s] \in UsdaChoices(s)},
     site : {f \in [CatalogueNames -> SiteIds] :
                \A n \in CatalogueNames : f[n] \in SiteChoices(n)},
     dl   : [SampleUrls -> DownloadOutcomes]]

QuietWorld ==
    [usda |-> [s \in SampleSymbols |-> "good"],
     site |-> [n \in CatalogueNames |-> "absent"],
     dl   |-> [u \in SampleUrls |-> "fail"]]

Store ==
    [plants |-> plants, images |-> images, rels |-> rels, files |-> files,
     log |-> <<>>]

\* What a run leaves in the graph: the plants' properties, the Image nodes
\* and the HAS_IMAGE relationships (by plant name and image URL).
Graph ==
    [plants |-> plants,
     images |-> {images[i] : i \in DOMAIN images},
     rels   |-> {[plant |-> plants[rels[j].plant]["scientific_name"],
                  image |-> images[rels[j].image].url] : j \in DOMAIN rels}]

DriverIdle ==
    /\ dpc = "idle"
    /\ dpass = "none"
    /\ dlist = <<>>
    /\ di = 0
    /\ dproc = <<>>
    /\ dstart = <<>>
    /\ druns = <<>>
    /\ dends = <<>>
    /\ dlog = <<>>

DriverInit == DriverIdle /\ world \in Worlds

\* A driver is started: it selects its plants.
StartRun ==
    /\ dpc \in {"idle", "done", "crashed"}
    /\ Len(druns) < MaxRuns
    /\ \E pass \in Passes :
          /\ dpass' = pass
          /\ dlist' = Select(pass, plants)
          /\ druns' = Append(druns, pass)
    /\ dpc' = "loop"
    /\ di' = 0
    /\ dproc' = <<>>
    /\ dstart' = plants
    /\ dlog' = <<>>
    /\ UNCHANGED <<dends, world, plants, images, rels, files, op, fvars, qvars>>

\* One turn of the loop over the selection; an exception ends the run.
ProcessPlant ==
    /\ dpc = "loop"
    /\ di < Len(dlist)
    /\ \E r \in {ProcessOne(dpass, Store, dlist[di + 1], world)} :
           /\ plants' = r.store.plants
           /\ images' = r.store.images
           /\ rels' = r.store.rels
           /\ files' = r.store.files
           /\ dlog' = r.store.log
           /\ IF r.status = "raised"
              THEN /\ dpc' = "crashed"
                   /\ dends' = Append(dends, [outcome |-> "crashed", graph |-> Graph])
                   /\ UNCHANGED <<di, dproc>>
              ELSE /\ di' = di + 1
                   /\ dproc' = Append(dproc, dlist[di + 1].sci)
                   /\ UNCHANGED <<dpc, dends>>
    /\ UNCHANGED <<dpass, dlist, dstart, druns, world, op, fvars, qvars>>

\* The loop is over: the driver closes the connection and returns.
EndRun ==
    /\ dpc = "loop"
    /\ di = Len(dlist)
    /\ dpc' = "done"
    /\ dends' = Append(dends, [outcome |-> "done", graph |-> Graph])
    /\ UNCHANGED <<dpass, dlist, di, dproc, dstart, druns, dlog, world,
                   plants, images, rels, files, op, fvars, qvars>>

DriverNext ==
    \/ StartRun
    \/ ProcessPlant
    \/ EndRun

(***************************************************************************)
(* The query layer: backend/main.py.                                       *)
(***************************************************************************)
\* CATEGORY_MAP, in the order of the dict literal.
CATEGORY_MAP ==
    <<[key |-> "Tree",        cat |-> "Trees"],
      [key |-> "Shrub",       cat |-> "Shrubs"],
      [key |-> "Subshrub",    cat |-> "Shrubs"],
      [key |-> "Vine",        cat |-> "Vines"],
      [key |-> "Forb/herb",   cat |-> "Wildflowers & Herbs"],
      [key |-> "Graminoid",   cat |-> "Grasses & Sedges"],
      [key |-> "Fern",        cat |-> "Ferns"],
      [key |-> "Nonvascular", cat |-> "Mosses & Liverworts"],
      [key |-> "Lichenous",   cat |-> "Lichens"]>>

\* An optional string: None, or a text.
None == [state |-> "none", text |-> ""]
Text(t) == [state |-> "text", text |-> t]

\* key.lower() in growth_habit.lower(), with the case kept.
KeyOccursInCase(key, habit) == Contains(habit, key)
\* key.lower() in growth_habit.lower()
KeyOccurs(key, habit) == Contains(Lower(habit), Lower(key))

\* for key, cat in CATEGORY_MAP.items(), from the i-th item on.
RECURSIVE CategoryFrom(_, _)
CategoryFrom(i, habit) ==
    IF i > Len(CATEGORY_MAP) THEN "Other"
    ELSE IF KeyOccurs(CATEGORY_MAP[i].key, habit) THEN CATEGORY_MAP[i].cat
    ELSE CategoryFrom(i + 1, habit)

growth_habit_to_category(growth_habit) ==
    IF growth_habit.state = "none" \/ growth_habit.text = "" THEN "Other"
    ELSE CategoryFrom(1, growth_habit.text)

\* Habit strings the function is tried on: the keys, in three spellings,
\* pairs of keys in either order, and strings holding no key.
HabitKeys == {CATEGORY_MAP[i].key : i \in DOMAIN CATEGORY_MAP}
HabitWords ==
    HabitKeys \cup {Lower(k) : k \in HabitKeys}
              \cup {"TREE", "SHRUB", "SUBSHRUB", "VINE", "FORB/HERB"}
SampleHabits ==
    HabitWords
        \cup {a \o ", " \o b : a \in HabitKeys, b \in HabitKeys}
        \cup {"FORB/HERB, vine", "Herb", "Moss", "street", "Tree fern",
              "unknown", ""}
HabitInputs == {None} \cup {Text(t) : t \in SampleHabits}

\* The function on every input tried.
CategoryOf == [h \in HabitInputs |-> growth_habit_to_category(h)]

\* The routes of the application that serve paths under /api/plants, in the
\* order they are registered: a path is exact, or prefix + {name:path} +
\* suffix, the parameter matching any text, "/" included.
Routes ==
    <<[prefix |-> "/api/plants", param |-> FALSE, suffix |-> "",
       handler |-> "get_plants"],
      [prefix |-> "/api/plants/", param |-> TRUE, suffix |-> "",
       handler |-> "get_plant_detail"],
      [prefix |-> "/api/plants/", param |-> TRUE, suffix |-> "/related",
       handler |-> "get_related_plants"]>>

RouteMatches(route, path) ==
    IF route.param
    THEN /\ Len(path) >= Len(route.prefix) + Len(route.suffix)
         /\ StartsWith(path, route.prefix)
         /\ EndsWith(path, route.suffix)
    ELSE path = route.prefix

PathParam(route, path) ==
    SubSeq(path, Len(route.prefix) + 1, Len(path) - Len(route.suffix))

\* The router takes the first registered route that matches (0: none).
Dispatch(path) ==
    LET hits == {i \in DOMAIN Routes : RouteMatches(Routes[i], path)}
    IN  IF hits = {} THEN 0 ELSE CHOOSE i \in hits : \A j \in hits : i <= j

\* p.<field> in a query: null when the node lacks the field.
Prop(node, field) == IF IsNull(node, field) THEN None ELSE Text(node[field])

\* a = b in a WHERE clause is true only between two values that are not null.
CypherEq(a, b) == a.state = "text" /\ b.state = "text" /\ a.text = b.text

NoResponse ==
    [status |-> 0, handler |-> "", category |-> "", rows |-> {}, plant |-> EmptyMap,
     categories |-> <<>>, total |-> 0]

Response(status, handler) ==
    [NoResponse EXCEPT !.status = status, !.handler = handler]

\* The URLs of the images of the n-th plant.
ImageUrls(imgs, rs, n) ==
    {imgs[rs[j].image].url : j \in {k \in DOMAIN rs : rs[k].plant = n}}

\* get_plant_detail: the responses it can give (one).
get_plant_detail(ps, imgs, rs, name) ==
    IF Matching(ps, name) = {} THEN {Response(404, "get_plant_detail")}
    ELSE {[Response(200, "get_plant_detail") EXCEPT
              !.plant = ps[CHOOSE n \in Matching(ps, name) : TRUE]]}

\* The plants the second query of get_related_plants binds.
RelatedTo(ps, name) ==
    LET x == ps[CHOOSE n \in Matching(ps, name) : TRUE]
    IN  {n \in DOMAIN ps :
            /\ ps[n]["scientific_name"] # name
            /\ \/ CypherEq(Prop(ps[n], "family"), Prop(x, "family"))
               \/ CypherEq(Prop(ps[n], "growth_habit_primary"),
                           Prop(x, "growth_habit_primary"))}

\* The rows one plant can give: collect(i.url)[0] is any of its images' URLs
\* (the order of collect is not fixed), null when it has none.
RelatedRows(ps, imgs, rs, n) ==
    {[scientific_name |-> ps[n]["scientific_name"],
      common_name |-> Prop(ps[n], "common_name"),
      growth_habit |-> Prop(ps[n], "growth_habit_primary"),
      thumbnail |-> t] :
        t \in IF ImageUrls(imgs, rs, n) = {} THEN {None}
              ELSE {Text(u) : u \in ImageUrls(imgs, rs, n)}}

\* get_related_plants: the responses it can give. LIMIT keeps any limit of
\* the rows (the query has no ORDER BY).
get_related_plants(ps, imgs, rs, name, limit) ==
    IF Matching(ps, name) = {} THEN {Response(404, "get_related_plants")}
    ELSE LET found == RelatedTo(ps, name)
             kept == {K \in SUBSET found :
                         Cardinality(K) = Min(limit, Cardinality(found))}
         IN  {[Response(200, "get_related_plants") EXCEPT !.rows = rows] :
                 rows \in UNION {{ {f[n] : n \in K} :
                                     f \in {g \in [K -> UNION {RelatedRows(ps, imgs, rs, n) : n \in K}] :
                                                \A n \in K : g[n] \in RelatedRows(ps, imgs, rs, n)} } :
                                 K \in kept}}

\* str.replace(old, new), old being one character.
RECURSIVE Replace(_, _, _)
Replace(s, old, new) ==
    IF Len(s) = 0 THEN ""
    ELSE (IF CharAt(s, 1) = old THEN new ELSE CharAt(s, 1))
             \o Replace(SubSeq(s, 2, Len(s)), old, new)

\* cat.lower().replace(" ", "-").replace("&", "and")
Slug(cat) == Replace(Replace(Lower(cat), " ", "-"), "&", "and")

Categories == {CATEGORY_MAP[i].cat : i \in DOMAIN CATEGORY_MAP}

\* The slug of every category name the handlers can meet.
SlugOf == [cat \in Categories \cup {"Other"} |-> Slug(cat)]

CATEGORY_EXEMPLARS ==
    [cat \in Categories |->
        CASE cat = "Trees"               -> Text("ACRU")
          [] cat = "Shrubs"              -> Text("COCO6")
          [] cat = "Vines"               -> Text("LOJA")
          [] cat = "Wildflowers & Herbs" -> Text("ECAN4")
          [] cat = "Grasses & Sedges"    -> Text("ANGE")
          [] cat = "Ferns"               -> Text("OSRE2")
          [] cat = "Mosses & Liverworts" -> Text("ANSP")
          [] OTHER                       -> None]

\* A value Python takes as true: a text that is not empty.
Truthy(v) == v.state = "text" /\ v.text # ""

HabitOf(node) == Prop(node, "growth_habit_primary")

\* (p.growth_habit_primary = 'h1' OR ...), h1... being habits.
HabitIn(node, habits) == \E h \in habits : CypherEq(HabitOf(node), Text(h))

\* The results a query can give: one row for each plant of DOMAIN rowsOf,
\* each taken from the rows the plant can give.
RECURSIVE Picks(_)
Picks(rowsOf) ==
    IF DOMAIN rowsOf = {} THEN {{}}
    ELSE LET n == CHOOSE m \in DOMAIN rowsOf : TRUE
             rest == Picks([m \in DOMAIN rowsOf \ {n} |-> rowsOf[m]])
         IN  {r \cup {x} : r \in rest, x \in rowsOf[n]}

\* ORDER BY p.scientific_name: the place of every name of the catalogue
\* among the names.
NameRank ==
    [name \in {Catalogue[n]["scientific_name"] : n \in DOMAIN Catalogue} |->
        Cardinality({m \in DOMAIN Catalogue :
                        StrLess(Catalogue[m]["scientific_name"], name)})]

\* MATCH (p:Plant)-[:HAS_IMAGE]->(i:Image) over the plants N, RETURN i.url,
\* p.common_name: the rows.
ExemplarRows(ps, imgs, rs, N) ==
    UNION {{[url |-> Text(u), name |-> Prop(ps[n], "common_name")] :
               u \in ImageUrls(imgs, rs, n)} : n \in N}

\* ... ORDER BY p.scientific_name LIMIT 1: a row of the first plant of N, by
\* name, that has an image.
FirstExemplarRows(ps, imgs, rs, N) ==
    LET pictured == {n \in N : ImageUrls(imgs, rs, n) # {}}
        first == {n \in pictured :
                    \A m \in pictured :
                       NameRank[ps[n]["scientific_name"]]
                           <= NameRank[ps[m]["scientific_name"]]}
    IN  ExemplarRows(ps, imgs, rs, first)

\* The exemplars get_categories can find for cat: the preferred symbol's
\* image, else one of a native plant of the category, else one of any plant
\* of the category.
Exemplar(ps, imgs, rs, cat) ==
    LET none == [url |-> None, name |-> None]
        sym == IF cat \in DOMAIN CATEGORY_EXEMPLARS THEN CATEGORY_EXEMPLARS[cat]
               ELSE None
        target_habits == {CATEGORY_MAP[i].key :
                             i \in {j \in DOMAIN CATEGORY_MAP : CATEGORY_MAP[j].cat = cat}}
        preferred == IF Truthy(sym)
                     THEN ExemplarRows(ps, imgs, rs,
                              {n \in DOMAIN ps : CypherEq(Prop(ps[n], "usda_symbol"), sym)})
                     ELSE {}
        inCat == {n \in DOMAIN ps : HabitIn(ps[n], target_habits)}
        native == {n \in inCat : CypherEq(Prop(ps[n], "native_status"), Text("N"))}
        Fallback(e, N) ==
            IF Truthy(e.url) \/ target_habits = {} \/ FirstExemplarRows(ps, imgs, rs, N) = {}
            THEN {e}
            ELSE FirstExemplarRows(ps, imgs, rs, N)
    IN  UNION {UNION {Fallback(e2, inCat) : e2 \in Fallback(e1, native)} :
                  e1 \in IF preferred = {} THEN {none} ELSE preferred}

\* get_categories: the responses it can give. Habits that are null or empty
\* are left out of the counts; the entries are sorted by falling count, and
\* entries of equal count stand in the order the query gave the habits.
get_categories(ps, imgs, rs) ==
    LET counted == {n \in DOMAIN ps : Truthy(HabitOf(ps[n]))}
        catOf == [n \in counted |-> CategoryOf[HabitOf(ps[n])]]
        cats == {catOf[n] : n \in counted}
        count == [cat \in cats |-> Cardinality({n \in counted : catOf[n] = cat})]
        Entries(cat) ==
            {[name |-> cat, count |-> count[cat], exemplar_image |-> e.url,
              exemplar_name |-> e.name, slug |-> SlugOf[cat]] :
                e \in Exemplar(ps, imgs, rs, cat)}
        at == 1..Cardinality(cats)
        orders == {o \in [at -> cats] :
                     \A i, j \in at :
                        i < j => o[i] # o[j] /\ count[o[i]] >= count[o[j]]}
    IN  {[Response(200, "get_categories") EXCEPT !.categories = c] :
            c \in UNION {{l \in [at -> UNION {Entries(cat) : cat \in cats}] :
                            \A i \in at : l[i] \in Entries(o[i])} :
                         o \in orders}}

\* The default of get_plants' limit parameter.
PlantsLimit == 50

\* The columns of a row of get_plants and the fields they show.
PlantColumns ==
    [scientific_name      |-> "scientific_name",
     common_name          |-> "common_name",
     native_status        |-> "native_status",
     growth_habit         |-> "growth_habit_primary",
     family               |-> "family",
     phylum               |-> "phylum",
     tax_class            |-> "gbif_class",
     usda_symbol          |-> "usda_symbol",
     duration             |-> "duration",
     plant_group          |-> "plant_group",
     has_wildlife_value   |-> "has_wildlife_value",
     has_pollinator_value |-> "has_pollinator_value",
     has_wetland_data     |-> "has_wetland_data",
     active_season        |-> "active_season",
     iucn_threat_status   |-> "iucn_threat_status"]

\* The rows one plant can give: collect(i.url)[0] is any of its images' URLs,
\* null when it has none.
PlantRows(ps, imgs, rs, n) ==
    {[c \in DOMAIN PlantColumns |-> Prop(ps[n], PlantColumns[c])]
        @@ [thumbnail |-> t] :
        t \in IF ImageUrls(imgs, rs, n) = {} THEN {None}
              ELSE {Text(u) : u \in ImageUrls(imgs, rs, n)}}

\* get_plants with the category filter and every other parameter at its
\* default: the responses it can give. A slug no category has adds no
\* condition.
get_plants(ps, imgs, rs, category) ==
    LET target_habits ==
            IF Truthy(category) /\ category.text # "all"
            THEN {CATEGORY_MAP[i].key :
                     i \in {j \in DOMAIN CATEGORY_MAP :
                               SlugOf[CATEGORY_MAP[j].cat] = category.text}}
            ELSE {}
        found == {n \in DOMAIN ps :
                     target_habits = {} \/ HabitIn(ps[n], target_habits)}
        page == {n \in found :
                    Cardinality({m \in found :
                        NameRank[ps[m]["scientific_name"]]
                            < NameRank[ps[n]["scientific_name"]]})
                        < PlantsLimit}
    IN  {[Response(200, "get_plants") EXCEPT
              !.rows = rows, !.total = Cardinality(found)] :
            rows \in Picks([n \in page |-> PlantRows(ps, imgs, rs, n)])}

\* The default of the limit parameter.
DefaultLimit == 6

\* A GET of path: the responses the application can give.
Handle(ps, imgs, rs, path) ==
    LET r == Dispatch(path)
        handler == Routes[r].handler
    IN  IF r = 0 THEN {Response(404, "")}
        ELSE IF handler = "get_plant_detail"
        THEN get_plant_detail(ps, imgs, rs, PathParam(Routes[r], path))
        ELSE IF handler = "get_related_plants"
        THEN get_related_plants(ps, imgs, rs, PathParam(Routes[r], path),
                                DefaultLimit)
        ELSE get_plants(ps, imgs, rs, None)

\* The graph after enrichment: the plants with the family and the primary
\* growth habit the passes gave them, if any.
SampleProfiles ==
    {Update(Opt("family", f), Opt("growth_habit_primary", h)) :
        f \in {"", "Aceraceae", "Asteraceae"},
        h \in {"", "Tree", "Forb/herb", "Herb"}}

EnrichedCatalogues ==
    {[n \in DOMAIN Catalogue |->
         Update(Catalogue[n],
                CASE Catalogue[n]["scientific_name"] = Maple  -> maple
                  [] Catalogue[n]["scientific_name"] = AsterL -> aster
                  [] Catalogue[n]["scientific_name"] = AsterH ->
                         [family |-> "Asteraceae", growth_habit_primary |-> "Tree"]
                  [] OTHER -> EmptyMap)] :
        maple \in SampleProfiles, aster \in SampleProfiles}

\* The plants requests name, one of them not in the graph.
RequestNames == CatalogueNames \cup {"Quercus alba"}
RelatedPath(name) == "/api/plants/" \o name \o "/related"
SampleRequestPaths ==
    {"/api/plants", "/api/stats"}
        \cup {"/api/plants/" \o n : n \in RequestNames}
        \cup {RelatedPath(n) : n \in RequestNames}
SampleLimits == {1, DefaultLimit}

\* The category filters get_plants is called with.
SampleCategories ==
    {None, Text(""), Text("all"), Text("other"), Text("Trees")}
        \cup {Text(SlugOf[cat]) : cat \in Categories}

\* The images the graph holds: one, of the red maple.
SampleGallery ==
    [images |-> <<[url |-> "https://commons/a.jpg", local_path |-> "",
                   source |-> "wikimedia"]>>,
     rels |-> <<[plant |-> 3, image |-> 1]>>]

NoRequest ==
    [kind |-> "none", habit |-> None, path |-> "", name |-> "", limit |-> 0,
     category |-> None]

QueryIdle == qreq = NoRequest /\ qres = NoResponse

\* growth_habit_to_category called.
CategoryCall ==
    /\ \E h \in HabitInputs :
          /\ qreq' = [NoRequest EXCEPT !.kind = "category", !.habit = h]
          /\ qres' = [NoResponse EXCEPT !.status = 200,
                                        !.handler = "growth_habit_to_category",
                                        !.category = CategoryOf[h]]
    /\ UNCHANGED <<fvars, svars, dvars>>

\* A GET request reaches the application.
Request ==
    /\ \E path \in SampleRequestPaths :
          /\ qreq' = [NoRequest EXCEPT !.kind = "request", !.path = path]
          /\ qres' \in Handle(plants, images, rels, path)
    /\ UNCHANGED <<fvars, svars, dvars>>

\* The handler get_related_plants called with a name and a limit.
RelatedCall ==
    /\ \E name \in RequestNames, limit \in SampleLimits :
          /\ qreq' = [NoRequest EXCEPT !.kind = "related", !.name = name,
                                       !.limit = limit]
          /\ qres' \in get_related_plants(plants, images, rels, name, limit)
    /\ UNCHANGED <<fvars, svars, dvars>>

\* The handler get_categories called.
CategoriesCall ==
    /\ qreq' = [NoRequest EXCEPT !.kind = "categories"]
    /\ qres' \in get_categories(plants, images, rels)
    /\ UNCHANGED <<fvars, svars, dvars>>

\* The handler get_plants called with a category filter.
PlantsCall ==
    /\ \E category \in SampleCategories :
          /\ qreq' = [NoRequest EXCEPT !.kind = "plants", !.category = category]
          /\ qres' \in get_plants(plants, images, rels, category)
    /\ UNCHANGED <<fvars, svars, dvars>>

QueryNext ==
    \/ CategoryCall
    \/ Request
    \/ RelatedCall
    \/ CategoriesCall
    \/ PlantsCall

(***************************************************************************)
(* Specifications.                                                         *)
(***************************************************************************)
\* No driver runs.
QuietInit ==
    FetchInit /\ StoreInit /\ DriverIdle /\ world = QuietWorld /\ QueryIdle

\* No call of the fetcher is under way, the store is the catalogue, and the
\* sources answer one of the ways tried.
RunsInit == FetchInit /\ StoreInit /\ DriverInit /\ QueryIdle

\* Calls of the fetcher and of the adapters.
FetchSpec == QuietInit /\ [][FetchNext]_vars

\* Calls of update_plant.
UpdateSpec == QuietInit /\ [][UpdatePlantOp]_vars

\* Calls of store_image.
ImageSpec == QuietInit /\ [][StoreImageOp]_vars

\* Runs of the three drivers.
DriverSpec == RunsInit /\ [][DriverNext]_vars

\* Requests to the query layer, on a graph the passes have enriched.
QueryInit ==
    /\ FetchInit
    /\ DriverIdle
    /\ world = QuietWorld
    /\ QueryIdle
    /\ plants \in EnrichedCatalogues
    /\ images = SampleGallery.images
    /\ rels = SampleGallery.rels
    /\ files = {}
    /\ op = NoOp

QuerySpec == QueryInit /\ [][QueryNext]_vars

(***************************************************************************)
(* Properties of update_plant (UpdateSpec).                                *)
(***************************************************************************)
PlantNamed(name) ==
    plants[CHOOSE n \in DOMAIN plants : plants[n]["scientific_name"] = name]

\* The fields a call of update_plant with props assigns.
FieldsOf(props) == {Sanitize(k) : k \in DOMAIN props}

\* C6 (as stated): a call of update_plant leaves every field whose name is
\* not a key of the supplied map as it was, removes no field, and changes
\* no other plant.
C6_AbsentKeysKept ==
    [][op'.kind = "update" =>
          /\ DOMAIN plants' = DOMAIN plants
          /\ \A n \in DOMAIN plants :
                /\ DOMAIN plants[n] \subseteq DOMAIN plants'[n]
                /\ \A f \in DOMAIN plants[n] :
                      (\/ plants[n]["scientific_name"] # op'.name
                       \/ f \notin DOMAIN op'.props)
                      => plants'[n][f] = plants[n][f]]_vars

\* C6 (amended): a call of update_plant leaves every field whose name is not
\* the sanitized form of a key of the supplied map as it was, removes no
\* field (so the field names of a plant only grow), and changes no other
\* plant.
C6_PartialUpdate ==
    [][op'.kind = "update" =>
          /\ DOMAIN plants' = DOMAIN plants
          /\ \A n \in DOMAIN plants :
                /\ DOMAIN plants[n] \subseteq DOMAIN plants'[n]
                /\ \A f \in DOMAIN plants[n] :
                      (\/ plants[n]["scientific_name"] # op'.name
                       \/ f \notin FieldsOf(op'.props))
                      => plants'[n][f] = plants[n][f]]_vars

\* The map {"a-b": v} was written to a plant that holds the fields habit
\* and a_b: a_b took v, habit and the bootstrap fields are still there.
C6_Witness ==
    /\ op.kind = "update"
    /\ op.name = Maple
    /\ DOMAIN op.props = {"a-b"}
    /\ "habit" \in DOMAIN PlantNamed(Maple)
    /\ PlantNamed(Maple)["a_b"] = op.props["a-b"]
    /\ PlantNamed(Maple)["common_name"] = "red maple"
    /\ PlantNamed(Maple)["usda_symbol"] = "ACRU"

(***************************************************************************)
(* Properties of store_image (ImageSpec).                                  *)
(***************************************************************************)
RelsBetween(n, url) ==
    {j \in DOMAIN rels : rels[j].plant = n /\ images[rels[j].image].url = url}

\* C8: no two Image nodes share a URL, no two HAS_IMAGE relationships join
\* the same plant and image, and after store_image on an existing plant
\* (for the first time or again) there is exactly one Image node with the
\* URL and exactly one relationship from the plant to it.
C8_ImageUpsert ==
    /\ \A i, j \in DOMAIN images : images[i].url = images[j].url => i = j
    /\ \A i, j \in DOMAIN rels : rels[i] = rels[j] => i = j
    /\ (op.kind = "image" /\ Matching(plants, op.name) # {}) =>
          /\ Cardinality(ImagesWithUrl(images, op.url)) = 1
          /\ \A n \in Matching(plants, op.name) :
                Cardinality(RelsBetween(n, op.url)) = 1

\* store_image was called twice in a row with the same plant and URL.
C8_Witness ==
    /\ op.kind = "image"
    /\ op.repeat
    /\ op.name = Maple
    /\ Cardinality(ImagesWithUrl(images, op.url)) = 1
    /\ Len(rels) = 1
    /\ images[rels[1].image].local_path = op.path

(***************************************************************************)
(* Properties of the drivers (DriverSpec).                                 *)
(***************************************************************************)
\* C7: a run of the driver that ran just before, the sources answering the
\* same, leaves the plants' properties, the Image nodes and the HAS_IMAGE
\* relationships as the run before left them.
C7_SecondRunChangesNothing ==
    \A r \in 2..Len(dends) :
        druns[r] = druns[r - 1] => dends[r].graph = dends[r - 1].graph

NamesOf(rows) == {rows[i].sci : i \in DOMAIN rows}

\* The identifying key and the marker field of each pass. scrape_all looks
\* plants up by scientific name; of the markers of the other two passes it
\* writes growth_habit_primary only.
HasKey(pass, node) ==
    pass = "usda" => (~IsNull(node, "usda_symbol") /\ node["usda_symbol"] # "")

MarkerOf(pass) == IF pass = "chars" THEN "wiki_summary" ELSE "growth_habit_primary"

PendingAt(pass, ps) ==
    {ps[n]["scientific_name"] :
        n \in {m \in DOMAIN ps : HasKey(pass, ps[m]) /\ IsNull(ps[m], MarkerOf(pass))}}

\* C9 (as stated): the plants a run of any driver goes through are exactly
\* those that had the pass's key and lacked its marker field when the run
\* started.
C9_EveryPassSelectsPending ==
    dpc # "idle" => NamesOf(dlist) = PendingAt(dpass, dstart)

\* C9 (amended): the plants a run of enrich_usda.main or of
\* enrich_characteristics.main goes through are exactly those that had the
\* pass's key and lacked its marker field when the run started, each once;
\* a run of scrape_all goes through every plant, each once.
C9_EnrichPassesSelectPending ==
    dpc # "idle" =>
        /\ Len(dlist) = Cardinality(NamesOf(dlist))
        /\ NamesOf(dlist) =
              IF dpass = "scrape"
              THEN {dstart[n]["scientific_name"] : n \in DOMAIN dstart}
              ELSE PendingAt(dpass, dstart)

\* A second run of enrich_usda.main after one that wrote the marker of the
\* maple and crashed on the next plant: it selects the two plants still
\* without marker and not the maple.
C9_Witness ==
    /\ druns = <<"usda", "usda">>
    /\ dends[1].outcome = "crashed"
    /\ dpc = "loop"
    /\ ~IsNull(PlantNamed(Maple), "growth_habit_primary")
    /\ NamesOf(dlist) = {AsterH, AsterL}

\* C10: no run ends in an exception: the plants processed so far are the
\* first rows of the selection, in order, and a run that is over has gone
\* through all of them.
C10_RunsReachTheEnd ==
    /\ dpc # "crashed"
    /\ dproc = [i \in 1..di |-> dlist[i].sci]
    /\ (dpc = "done" => di = Len(dlist))

(***************************************************************************)
(* The loop body of one plant, as dlog records it.                         *)
(***************************************************************************)
EventsOf(kind) == SelectSeq(dlog, LAMBDA e : e.ev = kind)

\* The run has processed a plant to the end of the loop body, and dlog is
\* what it did for that plant.
ProcessedOne(pass) == dpass = pass /\ dpc \in {"loop", "done"} /\ di > 0
LastPlant == dlist[di].sci

\* The images fetch_wikimedia_images returned for the plant processed last.
Discovered ==
    LET site == SiteAnswer(world.site[LastPlant])
    IN  WikimediaImages(site.search, site.infoplan)

\* C11: for every image discovered for a plant, store_image is called exactly
\* once, with the image's URL, the source tag "wikimedia" and the path
\* download_image returned: "" when the download failed, and the path of the
\* existing file, with no GET issued, when the destination already existed.
C11_EveryImageStored ==
    ProcessedOne("scrape") =>
        LET stored == EventsOf("store_image")
            downloads == EventsOf("download_image")
        IN  /\ Len(stored) = Len(Discovered)
            /\ Len(downloads) = Len(Discovered)
            /\ \A k \in 1..Len(Discovered) :
                   /\ stored[k].url = Discovered[k].url
                   /\ stored[k].what = LastPlant
                   /\ stored[k].source = "wikimedia"
                   /\ downloads[k].url = Discovered[k].url
                   /\ stored[k].path = downloads[k].path
                   /\ downloads[k].existed =>
                          /\ ~downloads[k].get
                          /\ stored[k].path =
                                 FilePath(stored[k].url, SafeSym(LastPlant), k - 1)
                   /\ ~downloads[k].existed =>
                          /\ downloads[k].get
                          /\ world.dl[stored[k].url] = "fail" => stored[k].path = ""

\* A plant with two images: the file of one was already there, the download
\* of the other failed, and both were stored.
C11_Witness ==
    /\ ProcessedOne("scrape")
    /\ Len(Discovered) = 2
    /\ LET stored == EventsOf("store_image")
           downloads == EventsOf("download_image")
       IN  /\ Len(stored) = 2
           /\ \E k \in 1..2 : downloads[k].existed /\ stored[k].path # ""
           /\ \E k \in 1..2 : downloads[k].get /\ stored[k].path = ""

(***************************************************************************)
(* The query layer's claims.                                               *)
(***************************************************************************)
\* The places in CATEGORY_MAP of the keys the text holds, whatever the case.
KeysIn(text) ==
    {i \in DOMAIN CATEGORY_MAP : Contains(Lower(text), Lower(CATEGORY_MAP[i].key))}

\* C12: growth_habit_to_category returns the category of the first key of
\* CATEGORY_MAP that occurs in the habit string as a case-insensitive
\* substring, "Other" when the habit is None, empty or holds no key; and
\* "Forb/herb" gives "Wildflowers & Herbs".
C12_FirstKeyWins ==
    qreq.kind = "category" =>
        LET h == qreq.habit
            hits == KeysIn(h.text)
        IN  /\ IF h.state = "none" \/ h.text = "" \/ hits = {}
               THEN qres.category = "Other"
               ELSE \E i \in hits :
                       /\ \A j \in hits : i <= j
                       /\ qres.category = CATEGORY_MAP[i].cat
            /\ h = Text("Forb/herb") => qres.category = "Wildflowers & Herbs"

\* A habit naming two keys, the later one of the mapping first and in
\* another case: the earlier key of the mapping decides.
C12_Witness ==
    /\ qreq.kind = "category"
    /\ qreq.habit = Text("FORB/HERB, vine")
    /\ qres.category = "Vines"

(***************************************************************************)
(* The adapters' outputs (FetchSpec).                                      *)
(***************************************************************************)
\* The call of adapter a is over and the adapter read a JSON object.
ParsedBy(a) ==
    /\ acaller = a
    /\ fpc = "done"
    /\ fresult = "resp"
    /\ abody.kind = "dict"

\* C13: the Wikipedia adapter returns the empty map whenever the extract is
\* 50 characters long or less or the page is a disambiguation page, whatever
\* else the extract holds; and for an extract of more than 1000 characters
\* wiki_summary is its first 1000 characters.
C13_ShortExtractGivesNothing ==
    (ParsedBy("wikipedia") /\ abody.data.extract.state # "null") =>
        LET text == abody.data.extract.text
        IN  /\ (abody.data.type = "disambiguation" \/ Len(text) <= 50) =>
                   aresult = Returned(EmptyMap)
            /\ (abody.data.type # "disambiguation" /\ Len(text) > 1000) =>
                   /\ aresult.status = "returned"
                   /\ "wiki_summary" \in DOMAIN aresult.props
                   /\ aresult.props["wiki_summary"] = SubSeq(text, 1, 1000)

\* The entries of the MONTH facets of a body that name a month and carry a
\* count, in the order the body lists them.
RECURSIVE MonthEntries(_)
MonthEntries(facets) ==
    IF facets = <<>> THEN <<>>
    ELSE (IF Head(facets).field = "MONTH"
          THEN SelectSeq(Head(facets).counts,
                         LAMBDA c : IsNumeral(c.name) /\ c.hasCount)
          ELSE <<>>)
         \o MonthEntries(Tail(facets))

\* The months a body reports and the count of each (the last one listed).
ReportedMonths(entries) == {ToInt(entries[i].name) : i \in DOMAIN entries}
ReportedCount(entries, m) ==
    LET at == {i \in DOMAIN entries : ToInt(entries[i].name) = m}
    IN  entries[CHOOSE i \in at : \A j \in at : j <= i].count

\* The sequences of n distinct months of the set ms.
Listings(ms, n) ==
    {p \in [1..n -> ms] : \A i, j \in 1..n : i # j => p[i] # p[j]}

NamesJoined(p) == Join([i \in DOMAIN p |-> MONTH_NAMES[p[i]]], ", ")

Output(props, key) == IF key \in DOMAIN props THEN props[key] ELSE ""

C14_Example ==
    /\ ParsedBy("gbif_phenology")
    /\ aresult = Returned([peak_observation_months |-> "June, September, March",
                           active_season |-> "June, September"])

UsdaAdapters == {"usda_scraper", "usda_enrich"}
FlagFields == {"has_wildlife_value", "has_pollinator_value", "has_wetland_data"}
RankFields ==
    {"kingdom", "subkingdom", "division", "tax_class", "tax_order", "family",
     "genus"}

\* The payload flag a flag field is read from.
FlagOf(d, field) ==
    CASE field = "has_wildlife_value"   -> d.wildlife
      [] field = "has_pollinator_value" -> d.pollinator
      [] OTHER                          -> d.wetland

\* C15: for every payload a USDA adapter parses, the output holds the three
\* flag fields, each "True" or "False" and "False" when the payload omits
\* the flag; growth_habits, growth_habit_primary, duration and the rank
\* fields are absent when the payload lacks the list entry they come from.
C15_FlagsAlwaysBoolean ==
    \A a \in UsdaAdapters :
        (ParsedBy(a) /\ aresult.status = "returned") =>
            LET d == abody.data
                out == aresult.props
            IN  /\ \A f \in FlagFields :
                       /\ f \in DOMAIN out
                       /\ out[f] \in {"True", "False"}
                       /\ FlagOf(d, f) = "missing" => out[f] = "False"
                /\ d.habits = <<>> =>
                       {"growth_habits", "growth_habit_primary"} \cap DOMAIN out = {}
                /\ d.durations = <<>> => "duration" \notin DOMAIN out
                /\ \A f \in RankFields :
                       (\A i \in DOMAIN d.ancestors :
                           RankField(Lower(d.ancestors[i].Rank)) # f)
                       => f \notin DOMAIN out

\* The plant named name is related to x: another plant with x's family or
\* x's primary growth habit.
Shares(name, x) ==
    /\ name # x
    /\ \E f \in {"family", "growth_habit_primary"} :
           /\ ~IsNull(PlantNamed(name), f)
           /\ ~IsNull(PlantNamed(x), f)
           /\ PlantNamed(name)[f] = PlantNamed(x)[f]

\* C16: a request for /api/plants/X/related is handled by get_related_plants:
\* for a plant X of the graph it returns only other plants that share X's
\* family or primary growth habit, and for a plant that does not exist the
\* result is 404.
C16_RelatedEndpoint ==
    \A x \in RequestNames :
        (qreq.kind = "request" /\ qreq.path = RelatedPath(x)) =>
            IF Matching(plants, x) # {}
            THEN /\ qres.handler = "get_related_plants"
                 /\ qres.status = 200
                 /\ \A row \in qres.rows : Shares(row.scientific_name, x)
            ELSE qres.status = 404

\* What get_related_plants returns when it is called.
RelatedHandlerSelects ==
    qreq.kind = "related" =>
        IF Matching(plants, qreq.name) # {}
        THEN /\ qres.status = 200
             /\ \A row \in qres.rows : Shares(row.scientific_name, qreq.name)
        ELSE qres.status = 404

(***************************************************************************)
(* Pacing: the sleeps between GETs and between external calls.             *)
(***************************************************************************)
\* fevents holds the GETs and sleeps of one call of safe_get (the Commons
\* adapter makes two calls: fevents spans both once the second has begun).
OneFetchCall == FetcherCall /\ (acaller # "commons" \/ astage = 1)

\* C17: in a call of safe_get, every attempt that fails with a status other
\* than 200 and 404 or with an exception is followed by a sleep before the
\* next attempt: no two GETs of the call are issued without a sleep between.
C17_SleepBetweenAttempts ==
    OneFetchCall =>
        \A i \in 1..(Len(fevents) - 1) :
            ~(fevents[i] = "get" /\ fevents[i + 1] = "get")

\* An entry of dlog that is a request to an external service: a call of an
\* adapter, or a download that issued its GET.
External(e) == e.ev = "call" \/ (e.ev = "download_image" /\ e.get)

\* C18: in every driver, each external call is followed by the inter-call
\* delay before the next external call is issued: no two external calls are
\* issued back to back.
C18_DelayAfterEveryCall ==
    LET paced == SelectSeq(dlog, LAMBDA e : External(e) \/ e.ev = "sleep")
    IN  \A i \in 1..(Len(paced) - 1) :
            ~(External(paced[i]) /\ External(paced[i + 1]))

(***************************************************************************)
(* The property write of a plant.                                          *)
(***************************************************************************)
\* The entries of dlog that give properties: the calls of the adapters other
\* than the Commons searches, and the key lookup.
GivesProps(e) ==
    \/ e.ev = "lookup"
    \/ e.ev = "call" /\ e.what \notin {"commons_search", "commons_imageinfo"}

\* The loop body of the plant processed last has run to its end.
ProcessedLast == dpc \in {"loop", "done"} /\ di > 0

\* C19: for each plant processed in a pass there is at most one call of
\* update_plant; it comes after every property adapter of the pass has run
\* for the plant and carries the union of their outputs; when the
\* accumulated map is empty there is no call.
C19_OneWriteAfterAllAdapters ==
    ProcessedLast =>
        LET writes == {i \in DOMAIN dlog : dlog[i].ev = "update"}
            gives == {i \in DOMAIN dlog : GivesProps(dlog[i])}
            keys == UNION {DOMAIN dlog[i].props : i \in gives}
        IN  /\ Cardinality(writes) <= 1
            /\ keys = {} => writes = {}
            /\ \A u \in writes :
                   /\ dlog[u].what = LastPlant
                   /\ \A i \in gives : i < u
                   /\ DOMAIN dlog[u].props = keys
                   /\ \A k \in keys :
                          \E i \in gives :
                              /\ k \in DOMAIN dlog[i].props
                              /\ dlog[i].props[k] = dlog[u].props[k]

\* A plant for which the five adapters of the characteristics pass each gave
\* properties, written once.
C19_Witness ==
    /\ ProcessedLast
    /\ dpass = "chars"
    /\ Cardinality({i \in DOMAIN dlog :
                       GivesProps(dlog[i]) /\ dlog[i].props # EmptyMap}) = 5
    /\ Cardinality({i \in DOMAIN dlog : dlog[i].ev = "update"}) = 1

\* A plant for which no adapter gave anything: nothing was written.
C19_NothingToWrite ==
    /\ ProcessedLast
    /\ \E i \in DOMAIN dlog : GivesProps(dlog[i])
    /\ \A i \in DOMAIN dlog : GivesProps(dlog[i]) => dlog[i].props = EmptyMap
    /\ \A i \in DOMAIN dlog : dlog[i].ev # "update"

\* C20: no two adapters run for a plant in the same pass return the same
\* field name (in particular the USDA adapter and the GBIF taxonomy adapter
\* in scrape_all), so accumulating their maps overwrites nothing.
C20_AdaptersOwnTheirFields ==
    ProcessedLast =>
        \A i, j \in DOMAIN dlog :
            (i < j /\ GivesProps(dlog[i]) /\ GivesProps(dlog[j])) =>
                DOMAIN dlog[i].props \cap DOMAIN dlog[j].props = {}

\* The same for the adapters of the characteristics pass alone.
CharsAdaptersOwnTheirFields == dpass = "chars" => C20_AdaptersOwnTheirFields

(***************************************************************************)
(* The descriptions adapter's buckets.                                     *)
(***************************************************************************)
\* A type label holds one of the words, whatever the case.
HoldsOneOf(label, words) == \E w \in words : Contains(Lower(label), w)

\* The texts the adapter keeps (stripped, 5 characters or more) of the
\* results whose type label satisfies the test, in order, cut to cap.
KeptTexts(results, Test(_), cap) ==
    LET kept == SelectSeq(results,
                          LAMBDA r : Len(Strip(r.description)) >= MinDescriptionLen
                                     /\ Test(r.type))
    IN  [i \in DOMAIN kept |-> Take(Strip(kept[i].description), cap)]

\* C21: a description goes to the habitat bucket when its type label holds
\* habitat, ecology or distribution as a case-insensitive substring, and to
\* the habit bucket when it holds habit, growth form or life form;
\* habitat_notes is the first two habitat texts, each cut to 300 characters,
\* joined by " | ", and gbif_habit the first habit text cut to 100.
C21_BucketsBySubstring ==
    (ParsedBy("gbif_descriptions") /\ aresult.status = "returned") =>
        LET InHabitat(label) == HoldsOneOf(label, HabitatTypes)
            InHabit(label) == ~InHabitat(label) /\ HoldsOneOf(label, HabitTypes)
            habitat == KeptTexts(abody.data.results, InHabitat, 300)
            habit == KeptTexts(abody.data.results, InHabit, 100)
        IN  /\ Output(aresult.props, "habitat_notes") = Join(Take(habitat, 2), " | ")
            /\ Output(aresult.props, "gbif_habit")
                   = (IF habit = <<>> THEN "" ELSE habit[1])

\* The same with the type label equal to one of the words, whatever the case.
BucketsByEquality ==
    (ParsedBy("gbif_descriptions") /\ aresult.status = "returned") =>
        LET InHabitat(label) == Lower(label) \in HabitatTypes
            InHabit(label) == Lower(label) \in HabitTypes
            habitat == KeptTexts(abody.data.results, InHabitat, 300)
            habit == KeptTexts(abody.data.results, InHabit, 100)
        IN  /\ Output(aresult.props, "habitat_notes") = Join(Take(habitat, 2), " | ")
            /\ Output(aresult.props, "gbif_habit")
                   = (IF habit = <<>> THEN "" ELSE habit[1])

(***************************************************************************)
(* Convergence of the USDA pass.                                           *)
(***************************************************************************)
\* C22: once enrich_usda.main has written a non-empty USDA property map for
\* a plant, a later run of the pass does not select the plant as pending:
\* the step that writes the map takes the plant out of the pending set (so
\* that, USDA answering 200 for every symbol, the pending set empties after
\* finitely many runs).
C22_WrittenPlantLeavesPending ==
    [][(/\ dpc = "loop"
        /\ dpass = "usda"
        /\ di' = di + 1
        /\ \E i \in DOMAIN dlog' :
               dlog'[i].ev = "update" /\ dlog'[i].props # EmptyMap)
       => dlist[di + 1].sci \notin NamesOf(Select("usda", plants'))]_vars

(***************************************************************************)
(* The two listings of the categories (QuerySpec).                         *)
(***************************************************************************)
\* The entries of the responses get_categories can give on the graph.
CategoryEntries ==
    UNION {{r.categories[i] : i \in DOMAIN r.categories} :
              r \in get_categories(plants, images, rels)}

\* C23: whatever the graph holds, for every entry get_categories returns,
\* the entry's count equals the total get_plants returns when called with
\* the entry's slug as the category filter and no other filter, the entry
\* "Other" included.
C23_CountsAgree ==
    (qreq.kind = "plants" /\ Truthy(qreq.category))
        => \A e \in CategoryEntries :
              e.slug = qreq.category.text => e.count = qres.total

\* The same for the entries other than "Other".
CountsAgreeOnMappedCategories ==
    (qreq.kind = "plants" /\ Truthy(qreq.category))
        => \A e \in CategoryEntries :
              (e.slug = qreq.category.text /\ e.name # "Other")
                  => e.count = qres.total

(***************************************************************************)
(* Field names of update_plant (UpdateSpec).                               *)
(***************************************************************************)
\* C24: for every map passed to update_plant, each entry is stored under
\* its own sanitized field name with its own value: no two distinct keys of
\* the map are written to the same field, and the field of a key holds that
\* key's value.
C24_EntriesKeptApart ==
    (op.kind = "update" /\ Matching(plants, op.name) # {})
        => \A k \in DOMAIN op.props :
              /\ PlantNamed(op.name)[Sanitize(k)] = op.props[k]
              /\ \A j \in DOMAIN op.props : j # k => Sanitize(j) # Sanitize(k)

\* The same for the maps whose keys have sanitized names that differ.
EntriesOfDistinctFieldsKept ==
    (/\ op.kind = "update"
     /\ Matching(plants, op.name) # {}
     /\ \A j, k \in DOMAIN op.props : j # k => Sanitize(j) # Sanitize(k))
        => \A k \in DOMAIN op.props :
              PlantNamed(op.name)[Sanitize(k)] = op.props[k]

================================================================================
